---- MODULE Spec2Model ----
(***************************************************************************)
(* A model of pg_probackup's data.c: page validation (validate_one_page,   *)
(* parse_page, page_may_be_compressed), the page reader (prepare_page),    *)
(* the stream writer (compress_and_backup_page, backup_data_file), the     *)
(* chain restore (restore_data_file, restore_data_file_internal) and the   *)
(* stream validator (check_file_pages).                                    *)
(*                                                                         *)
(* A page is a record of its header fields plus "body", a number standing  *)
(* for the bytes after the header (0 = all of them zero).  A stream is a   *)
(* sequence of frames [block, compressed_size, payload].                   *)
(***************************************************************************)
EXTENDS Integers, Sequences, FiniteSets, TLC

VARIABLES
    pc,                     \* position of the operation under study
    \* ---- arguments and locals of validate_one_page / prepare_page
    page,                   \* the caller's BLCKSZ buffer
    absolute_blkno,
    stop_lsn,
    checksum_version,
    rc,
    page_lsn,
    \* ---- one call of prepare_page: its arguments, what the file and the
    \* change tracker answer during the call, and the call's outcome
    pp_args,
    pp,
    interrupted,            \* the flags interrupted || thread_interrupted
    \* ---- one run of backup_data_file, then restore and validation of its stream
    file,
    bk_args,
    disk,
    bk,
    out,
    dest,
    val,
    \* ---- one run of restore_data_file over a chain of backups
    parent_chain,
    dest_file

vpVars == <<page, absolute_blkno, stop_lsn, checksum_version, rc, page_lsn>>
ppVars == <<pp_args, pp, interrupted>>
bkVars == <<file, bk_args, disk, bk, out, dest, val>>
chVars == <<parent_chain, dest_file>>
vars == <<pc, vpVars, ppVars, bkVars, chVars>>

(***************************************************************************)
(* Constants of the build                                                  *)
(***************************************************************************)
BLCKSZ == 8192
SizeOfPageHeaderData == 24
PD_VALID_FLAG_BITS == 7
MAXIMUM_ALIGNOF == 8
ZLIB_MAGIC == 120
PAGE_READ_ATTEMPTS == 100
InvalidXLogRecPtr == 0

MAXALIGN(len) == ((len + (MAXIMUM_ALIGNOF - 1)) \div MAXIMUM_ALIGNOF) * MAXIMUM_ALIGNOF

(***************************************************************************)
(* Pages                                                                   *)
(***************************************************************************)
NULL == [null |-> TRUE]

\* pd_lsn is the pair {xlogid, xrecoff}; an lsn value v of the model stands for
\* xlogid = v \div XLogSpan, xrecoff = v % XLogSpan (XLogSpan scales 2^32)
XLogSpan == 65536

MkPage(lsn, cks, flags, lower, upper, special, psv, body) ==
    [pd_lsn |-> [xlogid |-> lsn \div XLogSpan, xrecoff |-> lsn % XLogSpan],
     pd_checksum |-> cks, pd_flags |-> flags,
     pd_lower |-> lower, pd_upper |-> upper, pd_special |-> special,
     pd_pagesize_version |-> psv, body |-> body]

\* PageGetPageSize: pd_pagesize_version & 0xFF00
PageGetPageSize(phdr) == phdr.pd_pagesize_version - (phdr.pd_pagesize_version % 256)

\* pd_flags & ~PD_VALID_FLAG_BITS (the valid bits are the three lowest)
IllegalFlagBits(phdr) == phdr.pd_flags - (phdr.pd_flags % (PD_VALID_FLAG_BITS + 1))

\* PageXLogRecPtrGet: the 64-bit lsn of the header
PageXLogRecPtrGet(phdr) == phdr.pd_lsn.xlogid * XLogSpan + phdr.pd_lsn.xrecoff

\* the first byte of the page in memory: the low byte of pd_lsn.xlogid
FirstByte(p) == p.pd_lsn.xlogid % 256

\* the loop "for (i = 0; i < BLCKSZ && page[i] == 0; i++)" ending at BLCKSZ
AllBytesZero(p) ==
    /\ p.pd_lsn.xlogid = 0 /\ p.pd_lsn.xrecoff = 0
    /\ p.pd_checksum = 0 /\ p.pd_flags = 0
    /\ p.pd_lower = 0 /\ p.pd_upper = 0 /\ p.pd_special = 0
    /\ p.pd_pagesize_version = 0 /\ p.body = 0

\* the engine's page checksum: computed over the page with pd_checksum taken
\* as zero, mixed with the block number, never 0
pg_checksum_page(p, blkno) ==
    ((p.pd_lsn.xlogid + p.pd_lsn.xrecoff + p.pd_flags + p.pd_lower + p.pd_upper + p.pd_special
      + p.pd_pagesize_version + 31 * p.body + blkno) % 65535) + 1

HeaderSane(phdr) ==
    /\ PageGetPageSize(phdr) = BLCKSZ
    /\ IllegalFlagBits(phdr) = 0
    /\ phdr.pd_lower >= SizeOfPageHeaderData
    /\ phdr.pd_lower <= phdr.pd_upper
    /\ phdr.pd_upper <= phdr.pd_special
    /\ phdr.pd_special <= BLCKSZ
    /\ phdr.pd_special = MAXALIGN(phdr.pd_special)

\* parse_page: the lsn is stored first, whatever the header looks like
parse_page(p) == [ok |-> HeaderSane(p), lsn |-> PageXLogRecPtrGet(p)]

\* validate_one_page with the lsn rule tried before the checksum rule
validate_one_page_lsn_first(p, blkno, stop, cksum_version, lsn_in) ==
    IF p = NULL
    THEN [rc |-> "PAGE_IS_NOT_FOUND", page_lsn |-> lsn_in]
    ELSE LET parsed == parse_page(p) IN
         IF ~parsed.ok
         THEN IF AllBytesZero(p)
              THEN [rc |-> "PAGE_IS_ZEROED", page_lsn |-> parsed.lsn]
              ELSE [rc |-> "PAGE_HEADER_IS_INVALID", page_lsn |-> parsed.lsn]
         ELSE IF stop > 0 /\ parsed.lsn > stop
         THEN [rc |-> "PAGE_LSN_FROM_FUTURE", page_lsn |-> parsed.lsn]
         ELSE IF cksum_version # 0 /\ pg_checksum_page(p, blkno) # p.pd_checksum
         THEN [rc |-> "PAGE_CHECKSUM_MISMATCH", page_lsn |-> parsed.lsn]
         ELSE [rc |-> "PAGE_IS_VALID", page_lsn |-> parsed.lsn]

validate_one_page(p, blkno, stop, cksum_version, lsn_in) ==
    IF p = NULL
    THEN [rc |-> "PAGE_IS_NOT_FOUND", page_lsn |-> lsn_in]
    ELSE LET parsed == parse_page(p) IN
         IF ~parsed.ok
         THEN IF AllBytesZero(p)
              THEN [rc |-> "PAGE_IS_ZEROED", page_lsn |-> parsed.lsn]
              ELSE [rc |-> "PAGE_HEADER_IS_INVALID", page_lsn |-> parsed.lsn]
         ELSE IF cksum_version # 0 /\ pg_checksum_page(p, blkno) # p.pd_checksum
         THEN [rc |-> "PAGE_CHECKSUM_MISMATCH", page_lsn |-> parsed.lsn]
         ELSE IF stop > 0 /\ parsed.lsn > stop
         THEN [rc |-> "PAGE_LSN_FROM_FUTURE", page_lsn |-> parsed.lsn]
         ELSE [rc |-> "PAGE_IS_VALID", page_lsn |-> parsed.lsn]

(***************************************************************************)
(* prepare_page                                                            *)
(*                                                                         *)
(* pp holds the locals of the running call; pp.ret is "none" while the     *)
(* call runs, and then "return" (pp.state is the value returned), "error"  *)
(* (elog(ERROR): the call never returns) or "assert" (Assert(false)).      *)
(* A read result is [len, page]: len is what fio_pread returned, page what *)
(* it left in the buffer when len = BLCKSZ.  The change tracker's answer   *)
(* is [ptr, size].                                                         *)
(***************************************************************************)
PageIsOk == 0
PageIsTruncated == -1
SkipCurrentPage == -2
PageIsCorrupted == -3
RELSEG_SIZE == 131072

\* a: [segno, exists_in_prev, prev_backup_start_lsn, blknum, backup_mode, page,
\*     strict, checksum_version, ptrack_version_num]
absolute_blknum(a) == a.segno * RELSEG_SIZE + a.blknum

\* prepare_page that does not look at the flag
prepare_enter_unpolled(a, intr) ==
    [ret |-> "none", state |-> PageIsOk, page |-> a.page, page_lsn |-> 0,
     try_again |-> PAGE_READ_ATTEMPTS, page_is_valid |-> FALSE,
     rc |-> "NONE", nreads |-> 0, torn_only |-> TRUE,
     elevel |-> "NONE", errormsg |-> "NULL", tracker_called |-> FALSE]

\* lines 286-293: the locals, and the interrupt check
prepare_enter(a, intr) ==
    LET st0 == [ret |-> "none", state |-> PageIsOk, page |-> a.page, page_lsn |-> 0,
                try_again |-> PAGE_READ_ATTEMPTS, page_is_valid |-> FALSE,
                rc |-> "NONE", nreads |-> 0, torn_only |-> TRUE,
                elevel |-> "NONE", errormsg |-> "NULL", tracker_called |-> FALSE]
    IN  IF intr
        THEN [st0 EXCEPT !.ret = "error", !.elevel = "ERROR", !.errormsg = "Interrupted"]
        ELSE st0

\* the read path taken in every mode
reads_file_always(a) == TRUE

\* line 300: whether the call reads the file at all
reads_file(a) == a.backup_mode # "PTRACK" \/ a.ptrack_version_num >= 20

\* the loop giving up one attempt early
loop_continues_one_less(st) == ~st.page_is_valid /\ st.try_again > 1

\* the loop going on for as long as the page is not valid
loop_continues_unbounded(st) == ~st.page_is_valid

\* line 303: the loop is entered once more
loop_continues(st) == ~st.page_is_valid /\ st.try_again > 0

\* prepare_page asking validate_one_page to compare the page's lsn with a
\* stop lsn
prepare_stop_lsn_given(a) == 1

\* lines 326-328: the stop_lsn prepare_page passes to validate_one_page
prepare_stop_lsn(a) == InvalidXLogRecPtr

\* read_attempt with no case for PAGE_IS_ZEROED: a zeroed page is read again
read_attempt_zero_retried(a, st, rd) ==
    LET s1 == [st EXCEPT !.try_again = st.try_again - 1,
                         !.nreads = st.nreads + 1,
                         !.page_lsn = 0,
                         !.page = IF rd.len = BLCKSZ THEN rd.page ELSE st.page]
    IN
    IF rd.len = 0
    THEN [s1 EXCEPT !.ret = "return", !.state = PageIsTruncated]
    ELSE IF rd.len < 0
    THEN [s1 EXCEPT !.ret = "error", !.elevel = "ERROR"]
    ELSE IF rd.len # BLCKSZ
    THEN [s1 EXCEPT !.torn_only = FALSE]
    ELSE
      LET v == validate_one_page(rd.page, absolute_blknum(a),
                                 prepare_stop_lsn(a), a.checksum_version, 0)
          s2 == [s1 EXCEPT !.rc = v.rc, !.page_lsn = v.page_lsn]
      IN
      CASE v.rc = "PAGE_IS_VALID" ->
             IF a.backup_mode = "DELTA"
             THEN [s2 EXCEPT !.page_is_valid = TRUE]
             ELSE [s2 EXCEPT !.ret = "return", !.state = PageIsOk]
        [] OTHER -> s2

\* lines 305-355: one pass of the loop body, the read having returned rd.
\* torn_only records that every read so far returned a full page that failed
\* validation (history, not a local of the code).
read_attempt(a, st, rd) ==
    LET s1 == [st EXCEPT !.try_again = st.try_again - 1,
                         !.nreads = st.nreads + 1,
                         !.page_lsn = 0,
                         !.page = IF rd.len = BLCKSZ THEN rd.page ELSE st.page]
    IN
    IF rd.len = 0
    THEN [s1 EXCEPT !.ret = "return", !.state = PageIsTruncated]
    ELSE IF rd.len < 0
    THEN [s1 EXCEPT !.ret = "error", !.elevel = "ERROR"]
    ELSE IF rd.len # BLCKSZ
    THEN [s1 EXCEPT !.torn_only = FALSE]
    ELSE
      LET v == validate_one_page(rd.page, absolute_blknum(a),
                                 prepare_stop_lsn(a), a.checksum_version, 0)
          s2 == [s1 EXCEPT !.rc = v.rc, !.page_lsn = v.page_lsn]
      IN
      CASE v.rc = "PAGE_IS_ZEROED" ->
             [s2 EXCEPT !.ret = "return", !.state = PageIsOk]
        [] v.rc = "PAGE_IS_VALID" ->
             IF a.backup_mode = "DELTA"
             THEN [s2 EXCEPT !.page_is_valid = TRUE]
             ELSE [s2 EXCEPT !.ret = "return", !.state = PageIsOk]
        [] v.rc \in {"PAGE_HEADER_IS_INVALID", "PAGE_CHECKSUM_MISMATCH"} -> s2
        [] OTHER -> [s2 EXCEPT !.ret = "assert"]

\* after_loop with the non-strict caller told that the page is fine
after_loop_nonstrict_ok(a, st) ==
    LET s0 == IF st.page_is_valid THEN st ELSE [st EXCEPT !.try_again = st.try_again - 1]
    IN
    IF ~s0.page_is_valid /\ a.strict
    THEN [s0 EXCEPT !.ret = "error", !.elevel = "ERROR"]
    ELSE IF ~a.strict
    THEN [s0 EXCEPT !.ret = "return", !.state = PageIsOk,
                    !.elevel = IF s0.page_is_valid THEN "NONE" ELSE "WARNING"]
    ELSE s0

\* lines 303 and 362-393: the loop condition fails (try_again-- is still
\* evaluated when the page is not valid) and the read path ends
after_loop(a, st) ==
    LET s0 == IF st.page_is_valid THEN st ELSE [st EXCEPT !.try_again = st.try_again - 1]
    IN
    IF ~s0.page_is_valid
    THEN LET elevel == IF ~a.strict THEN "WARNING" ELSE "ERROR"
             errormsg == IF s0.rc = "PAGE_HEADER_IS_INVALID" THEN "header"
                         ELSE IF s0.rc = "PAGE_CHECKSUM_MISMATCH" THEN "checksum"
                         ELSE "NULL"
         IN  IF elevel = "ERROR"
             THEN [s0 EXCEPT !.ret = "error", !.elevel = elevel, !.errormsg = errormsg]
             ELSE [s0 EXCEPT !.ret = "return", !.elevel = elevel, !.errormsg = errormsg,
                             !.state = PageIsCorrupted]
    ELSE IF ~a.strict
    THEN [s0 EXCEPT !.ret = "return", !.state = PageIsOk]
    ELSE s0

\* line 400-401: the page of a PTRACK 1.x backup comes from the shared buffer
uses_tracker(a) ==
    a.backup_mode = "PTRACK" /\ a.ptrack_version_num >= 15 /\ a.ptrack_version_num < 20

\* lines 403-454
ptrack_path(a, tracker, st) ==
    IF ~uses_tracker(a) THEN st
    ELSE
      LET s1 == [st EXCEPT !.tracker_called = TRUE] IN
      IF tracker.ptr = NULL
      THEN [s1 EXCEPT !.ret = "return", !.state = PageIsTruncated]
      ELSE IF tracker.size # BLCKSZ
      THEN [s1 EXCEPT !.ret = "error", !.elevel = "ERROR"]
      ELSE
        LET v == validate_one_page(tracker.ptr, absolute_blknum(a),
                                   InvalidXLogRecPtr, a.checksum_version, s1.page_lsn)
            s2 == [s1 EXCEPT !.page = tracker.ptr, !.rc = v.rc, !.page_lsn = v.page_lsn]
        IN
        IF v.rc = "PAGE_IS_ZEROED"
        THEN [s2 EXCEPT !.ret = "return", !.state = PageIsOk]
        ELSE IF v.rc = "PAGE_HEADER_IS_INVALID"
        THEN [s2 EXCEPT !.ret = "error", !.elevel = "ERROR", !.errormsg = "header"]
        ELSE IF a.checksum_version # 0
        THEN [s2 EXCEPT !.page = [tracker.ptr EXCEPT !.pd_checksum =
                                    pg_checksum_page(tracker.ptr, absolute_blknum(a))]]
        ELSE s2

\* the final return without the DELTA filter
delta_skip_never(a, st) ==
    IF st.ret # "none" THEN st
    ELSE [st EXCEPT !.ret = "return", !.state = PageIsOk]

\* lines 460-469: the DELTA filter and the final return
delta_skip(a, st) ==
    IF st.ret # "none" THEN st
    ELSE IF /\ a.backup_mode = "DELTA"
            /\ a.exists_in_prev
            /\ st.page_lsn # 0
            /\ st.page_lsn < a.prev_backup_start_lsn
    THEN [st EXCEPT !.ret = "return", !.state = SkipCurrentPage]
    ELSE [st EXCEPT !.ret = "return", !.state = PageIsOk]

\* where the call goes once its locals are st: "pp_done" ends it
PrepareGoto(st, next) == IF st.ret # "none" THEN "pp_done" ELSE next

\* the call starts
PrepareEnter ==
    /\ pc = "pp_enter"
    /\ pp' = prepare_enter(pp_args, interrupted)
    /\ pc' = PrepareGoto(pp', IF reads_file(pp_args) THEN "pp_loop" ELSE "pp_tail")
    /\ UNCHANGED <<pp_args, interrupted>>

\* one read of the block; the file answers with one of results
PrepareRead(results) ==
    /\ pc = "pp_loop"
    /\ loop_continues(pp)
    /\ \E rd \in results : pp' = read_attempt(pp_args, pp, rd)
    /\ pc' = PrepareGoto(pp', "pp_loop")
    /\ UNCHANGED <<pp_args, interrupted>>

\* the loop ends: exhaustion, or a valid page in DELTA mode
PrepareLoopEnd ==
    /\ pc = "pp_loop"
    /\ ~loop_continues(pp)
    /\ pp' = after_loop(pp_args, pp)
    /\ pc' = PrepareGoto(pp', "pp_tail")
    /\ UNCHANGED <<pp_args, interrupted>>

\* the change tracker (if the mode asks it) and the DELTA filter
PrepareTail(answers) ==
    /\ pc = "pp_tail"
    /\ \E tr \in answers : pp' = delta_skip(pp_args, ptrack_path(pp_args, tr, pp))
    /\ pc' = "pp_done"
    /\ UNCHANGED <<pp_args, interrupted>>

(***************************************************************************)
(* SpecPage: validate_one_page applied to every page of a bounded family   *)
(***************************************************************************)
MaxLsn == 3
MaxBody == 1

LsnValues == 0..MaxLsn
HeaderPages ==
    { MkPage(lsn, 0, flags, lower, upper, special, psv, body) :
        lsn \in LsnValues, flags \in {0, 4, 8}, lower \in {0, 24, 100},
        upper \in {24, 100}, special \in {100, 8190, 8192, 8200},
        psv \in {0, 4100, 8196}, body \in 0..MaxBody }

\* each header with a foreign checksum, a zero checksum or its own checksum
PagesFor(blkno) ==
    UNION { { p, [p EXCEPT !.pd_checksum = 1],
              [p EXCEPT !.pd_checksum = pg_checksum_page(p, blkno)] } : p \in HeaderPages }

\* the variables of prepare_page's harness, when no call is under study
IdlePrepare == pp_args = <<>> /\ pp = <<>> /\ interrupted = FALSE

\* the variables of restore_data_file's harness, when no run is under study
IdleChain == parent_chain = <<>> /\ dest_file = <<>>

\* the variables of backup_data_file's harness, when no run is under study
IdleBackup ==
    /\ file = <<>> /\ bk_args = <<>> /\ disk = <<>> /\ bk = <<>>
    /\ out = <<>> /\ dest = <<>> /\ val = <<>>
    /\ IdleChain

\* the variables of validate_one_page's harness, when no call is under study
IdlePage ==
    /\ page = NULL /\ absolute_blkno = 0 /\ stop_lsn = InvalidXLogRecPtr
    /\ checksum_version = 0 /\ rc = "NONE" /\ page_lsn = 0

InitPage ==
    /\ pc = "validate"
    /\ IdlePrepare
    /\ IdleBackup
    /\ absolute_blkno \in {0, 1}
    /\ page \in PagesFor(absolute_blkno) \cup {NULL}
    /\ stop_lsn \in {InvalidXLogRecPtr, 2}
    /\ checksum_version \in {0, 1}
    /\ rc = "NONE"
    /\ page_lsn = 0

ValidateOnePage ==
    /\ pc = "validate"
    /\ LET r == validate_one_page(page, absolute_blkno, stop_lsn, checksum_version, page_lsn)
       IN  /\ rc' = r.rc
           /\ page_lsn' = r.page_lsn
    /\ pc' = "validated"
    /\ UNCHANGED <<page, absolute_blkno, stop_lsn, checksum_version, ppVars, bkVars, chVars>>

NextPage == ValidateOnePage

SpecPage == InitPage /\ [][NextPage]_vars

(***************************************************************************)
(* Pages of the checks                                                     *)
(***************************************************************************)
PrevStartLsn == 2

\* a page that passes validation at block blkno
ValidPage(lsn, body, blkno) ==
    LET p == MkPage(lsn, 0, 0, SizeOfPageHeaderData, BLCKSZ, BLCKSZ, BLCKSZ + 4, body)
    IN  [p EXCEPT !.pd_checksum = pg_checksum_page(p, blkno)]
\* the same page caught with a checksum that does not match its content
TornSum(lsn, body, blkno) ==
    LET p == ValidPage(lsn, body, blkno)
    IN  [p EXCEPT !.pd_checksum = (p.pd_checksum % 65535) + 1]
\* a page caught half written: the header is not sane
TornHdr == MkPage(1, 0, 0, 0, 0, 0, 0, 1)
ZeroPage == MkPage(0, 0, 0, 0, 0, 0, 0, 0)
\* what the caller's buffer holds before the call
StalePage == MkPage(0, 0, 0, 0, 0, 0, 0, 2)

FullRead(p) == [len |-> BLCKSZ, page |-> p]
ShortRead == [len |-> 100, page |-> NULL]
EofRead == [len |-> 0, page |-> NULL]
FailedRead == [len |-> -1, page |-> NULL]

ReadResults(blkno) ==
    { FullRead(ValidPage(lsn, 1, blkno)) : lsn \in LsnValues }
    \cup { FullRead(ZeroPage), FullRead(TornHdr), FullRead(TornSum(MaxLsn, 1, blkno)),
           ShortRead, EofRead, FailedRead }

NoTracker == [ptr |-> NULL, size |-> 0]
TrackerAnswers(blkno) ==
    { NoTracker, [ptr |-> ZeroPage, size |-> BLCKSZ],
      [ptr |-> TornHdr, size |-> BLCKSZ], [ptr |-> ValidPage(MaxLsn, 1, blkno), size |-> 100],
      [ptr |-> ValidPage(MaxLsn, 1, blkno), size |-> BLCKSZ],
      [ptr |-> TornSum(MaxLsn, 1, blkno), size |-> BLCKSZ] }

(***************************************************************************)
(* SpecPrepare: one call of prepare_page, under every mode, with the file  *)
(* free to answer each read as it likes                                    *)
(***************************************************************************)
\* mode, tracker version, exists_in_prev, prev_backup_start_lsn
PrepareModes ==
    ({"FULL", "PAGE"} \X {0} \X {TRUE} \X {InvalidXLogRecPtr})
    \cup ({"DELTA"} \X {0} \X BOOLEAN \X {PrevStartLsn})
    \cup ({"PTRACK"} \X {0, 15, 20} \X {TRUE} \X {InvalidXLogRecPtr})

InitPrepare ==
    /\ pc = "pp_enter"
    /\ IdlePage
    /\ IdleBackup
    /\ \E m \in PrepareModes, strict \in BOOLEAN, cv \in {0, 1} :
         pp_args = [segno |-> 0, exists_in_prev |-> m[3],
                    prev_backup_start_lsn |-> m[4], blknum |-> 1,
                    backup_mode |-> m[1], page |-> StalePage, strict |-> strict,
                    checksum_version |-> cv, ptrack_version_num |-> m[2]]
    /\ interrupted \in BOOLEAN
    /\ pp = <<>>

NextPrepare ==
    \/ PrepareEnter /\ UNCHANGED <<vpVars, bkVars, chVars>>
    \/ PrepareRead(ReadResults(pp_args.blknum)) /\ UNCHANGED <<vpVars, bkVars, chVars>>
    \/ PrepareLoopEnd /\ UNCHANGED <<vpVars, bkVars, chVars>>
    \/ PrepareTail(IF uses_tracker(pp_args) THEN TrackerAnswers(pp_args.blknum)
                   ELSE {NoTracker}) /\ UNCHANGED <<vpVars, bkVars, chVars>>

SpecPrepare == InitPrepare /\ [][NextPrepare]_vars
\* a call that can take a step takes one
SpecPrepareFair == SpecPrepare /\ WF_vars(NextPrepare)

(***************************************************************************)
(* Codec: do_compress and do_decompress.  Compressed data is the record    *)
(* [view, z, alg]: z is the page it decompresses to under alg, view is     *)
(* what its first bytes look like when they are read as a page header.     *)
(* A raw page p is the data [view |-> p, z |-> NULL, alg |-> "NONE"].      *)
(***************************************************************************)
BackupPageHeaderSize == 8
CompressAlgs == {"NONE", "ZLIB", "PGLZ"}

RawData(p) == [view |-> p, z |-> NULL, alg |-> "NONE"]
\* the bytes of compressed data, read as a page: no sane header; a zlib stream
\* starts with ZLIB_MAGIC
ZView(alg) ==
    IF alg = "ZLIB" THEN MkPage(ZLIB_MAGIC * XLogSpan, 0, 0, 0, 0, 0, 0, 1)
    ELSE MkPage(1, 0, 0, 0, 0, 0, 0, 1)
ZData(p, alg) == [view |-> ZView(alg), z |-> p, alg |-> alg]

\* compress2: the size a page compresses to is fixed by its bytes; the table
\* gives each kind of page one of the outcomes the caller tells apart
zlib_compress(p) ==
    IF AllBytesZero(p) THEN 96
    ELSE CASE PageXLogRecPtrGet(p) % 4 = 0 -> BLCKSZ - 1
           [] PageXLogRecPtrGet(p) % 4 = 1 -> BLCKSZ
           [] PageXLogRecPtrGet(p) % 4 = 2 -> 104
           [] OTHER -> BLCKSZ + 11
\* pglz_compress: -1 when the page does not shrink
pglz_compress(p) ==
    IF AllBytesZero(p) THEN 100
    ELSE CASE PageXLogRecPtrGet(p) % 4 = 0 -> -1
           [] PageXLogRecPtrGet(p) % 4 = 1 -> BLCKSZ - 8
           [] PageXLogRecPtrGet(p) % 4 = 2 -> 96
           [] OTHER -> -1

\* lines 62-86
do_compress(p, alg) ==
    CASE alg = "ZLIB" -> [size |-> zlib_compress(p), data |-> ZData(p, alg)]
      [] alg = "PGLZ" -> [size |-> pglz_compress(p), data |-> ZData(p, alg)]
      [] OTHER -> [size |-> -1, data |-> RawData(p)]

\* lines 92-123: data that alg did not produce does not decompress
do_decompress(data, alg) ==
    IF alg \in {"ZLIB", "PGLZ"} /\ data.z # NULL /\ data.alg = alg
    THEN [size |-> BLCKSZ, page |-> data.z, errormsg |-> "NULL"]
    ELSE IF alg = "ZLIB"
    THEN [size |-> -3, page |-> NULL, errormsg |-> "zError"]
    ELSE IF alg = "PGLZ"
    THEN [size |-> -1, page |-> NULL, errormsg |-> "NULL"]
    ELSE [size |-> -1, page |-> NULL, errormsg |-> "Invalid compression algorithm"]

\* the heuristic applied to the streams of every version
page_may_be_compressed_any_version(data, alg, backup_version) ==
    IF ~HeaderSane(data.view)
    THEN IF alg = "ZLIB" /\ FirstByte(data.view) # ZLIB_MAGIC THEN FALSE
         ELSE TRUE
    ELSE FALSE

\* lines 135-171
page_may_be_compressed(data, alg, backup_version) ==
    IF ~HeaderSane(data.view)
    THEN IF backup_version >= 20023 THEN FALSE
         ELSE IF alg = "ZLIB" /\ FirstByte(data.view) # ZLIB_MAGIC THEN FALSE
         ELSE TRUE
    ELSE FALSE

(***************************************************************************)
(* The rolling checksum of a stream file.  Its value is the polynomial     *)
(* and the bytes fed so far; the bytes are named by the frame they belong  *)
(* to, the part of the frame and the number of bytes taken from it.        *)
(***************************************************************************)
INIT_FILE_CRC32(use_crc32c) ==
    [poly |-> IF use_crc32c THEN "crc32c" ELSE "crc32", data |-> <<>>]
COMP_FILE_CRC32(crc, bytes) == [crc EXCEPT !.data = crc.data \o bytes]
\* the final xor; over no bytes both polynomials give the same value
FIN_FILE_CRC32(crc) == IF crc.data = <<>> THEN [crc EXCEPT !.poly = "any"] ELSE crc

HeaderBytes(frame, n) == [part |-> "header", of |-> frame, n |-> n]
PayloadBytes(frame, n) == [part |-> "payload", of |-> frame, n |-> n]

(***************************************************************************)
(* compress_and_backup_page.  A frame of the stream is                     *)
(* [block, compressed_size, data, pad]: pad stands for the bytes between   *)
(* compressed_size and MAXALIGN(compressed_size), which the writer takes   *)
(* from its buffer without having set them.                                *)
(***************************************************************************)
PadValues(size) == IF MAXALIGN(size) = size THEN {0} ELSE {0, 1}

\* the frame with header.block left at zero
make_frame_block0(blknum, p, calg, pad) ==
    LET c == do_compress(p, calg) IN
    IF c.size > 0 /\ c.size < BLCKSZ
    THEN [block |-> 0, compressed_size |-> c.size, data |-> c.data, pad |-> pad]
    ELSE [block |-> 0, compressed_size |-> BLCKSZ, data |-> RawData(p), pad |-> 0]

\* lines 485-513: the frame, given what the unset bytes of the buffer hold
make_frame(blknum, p, calg, pad) ==
    LET c == do_compress(p, calg) IN
    IF c.size > 0 /\ c.size < BLCKSZ
    THEN [block |-> blknum, compressed_size |-> c.size, data |-> c.data, pad |-> pad]
    ELSE [block |-> blknum, compressed_size |-> BLCKSZ, data |-> RawData(p), pad |-> 0]

\* the frame written without its alignment padding
write_buffer_size_unaligned(frame) == BackupPageHeaderSize + frame.compressed_size

\* lines 480, 504, 512
write_buffer_size(frame) == BackupPageHeaderSize + MAXALIGN(frame.compressed_size)

\* the writer feeding the checksum without the alignment padding
writer_crc_unpadded(crc, frame) ==
    COMP_FILE_CRC32(crc, <<HeaderBytes(frame, BackupPageHeaderSize),
                           PayloadBytes(frame, frame.compressed_size)>>)

\* line 516: one call over the first write_buffer_size bytes of the buffer
writer_crc(crc, frame) ==
    COMP_FILE_CRC32(crc, <<HeaderBytes(frame, BackupPageHeaderSize),
                           PayloadBytes(frame, write_buffer_size(frame) - BackupPageHeaderSize)>>)

\* lines 496, 516-524: f is the pgFile, frames the stream written so far
compress_and_backup_page(f, frames, blknum, p, calg, pad) ==
    LET frame == make_frame(blknum, p, calg, pad) IN
    [file |-> [f EXCEPT !.compress_alg = calg,
                        !.crc = writer_crc(f.crc, frame),
                        !.write_size = f.write_size + write_buffer_size(frame),
                        !.uncompressed_size = f.uncompressed_size + BLCKSZ],
     frames |-> Append(frames, frame)]

(***************************************************************************)
(* The pagemap: [bitmapsize, bits], bits the block numbers whose bit is    *)
(* set (bitmap is NULL exactly when bitmapsize is 0).  The iterator is the *)
(* next block number to look at.                                           *)
(***************************************************************************)
PageBitmapIsEmpty == 0
datapagemap_iterate(pagemap) == 0
datapagemap_next(pagemap, iter, blknum) ==
    LET rest == { b \in pagemap.bits : b >= iter } IN
    IF rest = {}
    THEN [found |-> FALSE, blknum |-> blknum, iter |-> iter]
    ELSE LET b == CHOOSE x \in rest : \A y \in rest : x <= y
         IN  [found |-> TRUE, blknum |-> b, iter |-> b + 1]

(***************************************************************************)
(* backup_data_file, local mode.  file is the pgFile, bk_args the other    *)
(* arguments, disk the source file as the reads of this run find it, bk    *)
(* the locals, out the stream file at to_fullpath.                         *)
(***************************************************************************)
BYTES_INVALID == -1
FILE_NOT_FOUND == -2

\* the pre-check made for PAGE backups only
file_unchanged_page_only(f, backup_mode) ==
    /\ backup_mode = "PAGE"
    /\ f.pagemap.bitmapsize = PageBitmapIsEmpty
    /\ f.exists_in_prev /\ ~f.pagemap_isabsent

\* lines 575-578: the file did not change since the parent backup
file_unchanged(f, backup_mode) ==
    /\ backup_mode \in {"PAGE", "PTRACK"}
    /\ f.pagemap.bitmapsize = PageBitmapIsEmpty
    /\ f.exists_in_prev /\ ~f.pagemap_isabsent

\* lines 642-647 (pagemap.bitmap is NULL exactly when bitmapsize is 0)
use_pagemap(f) ==
    ~ (\/ f.pagemap.bitmapsize = PageBitmapIsEmpty
       \/ f.pagemap_isabsent \/ ~f.exists_in_prev)

\* line 594: the source opened for reading; NULL with errno set when it fails
fio_fopen(d) == IF d.errno = "none" THEN [null |-> FALSE] ELSE NULL

\* a missing file taken for an error whatever missing_ok says
open_failed_always_error(f, errno, missing_ok) ==
    [file |-> [f EXCEPT !.crc = FIN_FILE_CRC32(f.crc)], ret |-> "error"]

\* lines 595-619: in == NULL
open_failed(f, errno, missing_ok) ==
    LET f1 == [f EXCEPT !.crc = FIN_FILE_CRC32(f.crc)] IN
    IF errno = "ENOENT" /\ missing_ok
    THEN [file |-> [f1 EXCEPT !.write_size = FILE_NOT_FOUND], ret |-> "return"]
    ELSE [file |-> f1, ret |-> "error"]

\* lines 557-647 and 711-715
BackupBegin ==
    /\ pc = "bk_begin"
    /\ LET nblocks == file.size \div BLCKSZ
           f0 == [file EXCEPT !.n_blocks = nblocks]
           f1 == [f0 EXCEPT !.read_size = 0, !.write_size = 0,
                            !.uncompressed_size = 0, !.crc = INIT_FILE_CRC32(TRUE)]
           first == IF use_pagemap(f1)
                    THEN datapagemap_next(f1.pagemap, datapagemap_iterate(f1.pagemap), 0)
                    ELSE [found |-> FALSE, blknum |-> 0, iter |-> 0]
       IN
       IF file_unchanged(f0, bk_args.backup_mode)
       THEN /\ file' = [f0 EXCEPT !.write_size = BYTES_INVALID]
            /\ bk' = [bk EXCEPT !.nblocks = nblocks, !.ret = "return"]
            /\ pc' = "bk_done"
            /\ out' = out
       ELSE IF fio_fopen(disk) = NULL
       THEN LET r == open_failed(f1, disk.errno, bk_args.missing_ok) IN
            /\ file' = r.file
            /\ bk' = [bk EXCEPT !.nblocks = nblocks, !.ret = r.ret]
            /\ pc' = IF r.ret = "return" THEN "bk_done" ELSE "bk_error"
            /\ out' = out
       ELSE /\ file' = f1
            /\ out' = [exists |-> TRUE, frames |-> <<>>]
            /\ bk' = [bk EXCEPT !.nblocks = nblocks, !.use_pagemap = use_pagemap(f1),
                                !.blknum = first.blknum, !.iter = first.iter]
            /\ pc' = "bk_loop"
    /\ UNCHANGED <<bk_args, disk, dest, val, pp_args, pp, interrupted>>

\* lines 717-723: the loop condition and the call of prepare_page
BackupLoop ==
    /\ pc = "bk_loop"
    /\ IF bk.blknum < bk.nblocks
       THEN /\ pp_args' = [segno |-> file.segno, exists_in_prev |-> file.exists_in_prev,
                           prev_backup_start_lsn |-> bk_args.prev_backup_start_lsn,
                           blknum |-> bk.blknum, backup_mode |-> bk_args.backup_mode,
                           page |-> bk.curr_page, strict |-> TRUE,
                           checksum_version |-> bk_args.checksum_version,
                           ptrack_version_num |-> bk_args.ptrack_version_num]
            /\ pc' = "pp_enter"
       ELSE /\ pp_args' = pp_args
            /\ pc' = "bk_finish"
    /\ UNCHANGED <<file, bk_args, disk, bk, out, dest, val, pp, interrupted>>

\* the loop going to the same block again
next_block_stuck(b, f) == [found |-> TRUE, blknum |-> b.blknum, iter |-> b.iter]

\* lines 743-751: the next block, found FALSE when the pagemap is exhausted
next_block(b, f) ==
    IF b.use_pagemap
    THEN datapagemap_next(f.pagemap, b.iter, b.blknum)
    ELSE [found |-> TRUE, blknum |-> b.blknum + 1, iter |-> b.iter]

\* read_size counting the blocks written only
block_was_read_if_written(f, page_state) ==
    IF page_state = PageIsOk THEN [f EXCEPT !.read_size = f.read_size + BLCKSZ] ELSE f

\* line 741: file->read_size += BLCKSZ, for a block skipped as for one written
block_was_read(f, page_state) == [f EXCEPT !.read_size = f.read_size + BLCKSZ]

\* lines 725-751: what the loop does with prepare_page's answer; the locals of
\* the call are gone once it has returned
BackupPageDone ==
    /\ pc = "pp_done"
    /\ IF pp.ret # "return"
       THEN /\ bk' = [bk EXCEPT !.ret = pp.ret, !.curr_page = pp.page]
            /\ pc' = "bk_error"
            /\ UNCHANGED <<file, out>>
       ELSE IF pp.state = PageIsTruncated
       THEN /\ bk' = [bk EXCEPT !.curr_page = pp.page]
            /\ pc' = "bk_finish"
            /\ UNCHANGED <<file, out>>
       ELSE IF pp.state \notin {SkipCurrentPage, PageIsOk}
       THEN /\ bk' = [bk EXCEPT !.ret = "assert", !.curr_page = pp.page]
            /\ pc' = "bk_error"
            /\ UNCHANGED <<file, out>>
       ELSE \E pad \in PadValues(do_compress(pp.page, bk_args.calg).size) :
            LET w == IF pp.state = PageIsOk
                     THEN compress_and_backup_page(file, out.frames, bk.blknum, pp.page,
                                                   bk_args.calg, pad)
                     ELSE [file |-> file, frames |-> out.frames]
                nx == next_block(bk, file)
            IN  /\ file' = block_was_read(w.file, pp.state)
                /\ out' = [out EXCEPT !.frames = w.frames]
                /\ bk' = [bk EXCEPT !.curr_page = pp.page,
                                    !.n_blocks_skipped =
                                        IF pp.state = SkipCurrentPage
                                        THEN bk.n_blocks_skipped + 1
                                        ELSE bk.n_blocks_skipped,
                                    !.blknum = nx.blknum, !.iter = nx.iter]
                /\ pc' = IF nx.found THEN "bk_loop" ELSE "bk_finish"
    /\ pp' = <<>>
    /\ UNCHANGED <<bk_args, disk, dest, val, pp_args, interrupted>>

\* the run never taking the file for unchanged
didnt_change_never(f, backup_mode) == FALSE

\* lines 772-779: the file did not change, in case of an incremental backup
didnt_change(f, backup_mode) ==
    /\ backup_mode # "FULL" /\ f.exists_in_prev
    /\ f.write_size = 0 /\ f.n_blocks > 0

\* the output file removed only when write_size is negative
unlink_output_when_negative(f, o) ==
    IF f.write_size < 0 THEN [exists |-> FALSE, frames |-> <<>>] ELSE o

\* lines 783-788: no point in storing empty files
unlink_output(f, o) ==
    IF f.write_size <= 0 THEN [exists |-> FALSE, frames |-> <<>>] ELSE o

\* n_blocks refreshed in every mode
refresh_n_blocks_every_mode(f, backup_mode) ==
    [f EXCEPT !.n_blocks = f.read_size \div BLCKSZ]

\* lines 758-761: refresh n_blocks for FULL and DELTA
refresh_n_blocks(f, backup_mode) ==
    IF backup_mode \in {"FULL", "DELTA"}
    THEN [f EXCEPT !.n_blocks = f.read_size \div BLCKSZ]
    ELSE f

\* lines 758-788
BackupFinish ==
    /\ pc = "bk_finish"
    /\ LET f1 == refresh_n_blocks(file, bk_args.backup_mode)
           f2 == [f1 EXCEPT !.crc = FIN_FILE_CRC32(f1.crc)]
           f3 == IF didnt_change(f2, bk_args.backup_mode)
                 THEN [f2 EXCEPT !.write_size = BYTES_INVALID]
                 ELSE f2
       IN  /\ file' = f3
           /\ out' = unlink_output(f3, out)
    /\ bk' = [bk EXCEPT !.ret = "return"]
    /\ pc' = "bk_done"
    /\ UNCHANGED <<bk_args, disk, dest, val, pp_args, pp, interrupted>>

(***************************************************************************)
(* restore_data_file.  The destination file is a sequence of pages; a gap  *)
(* left by a seek past the end reads as zero bytes.                        *)
(***************************************************************************)
RECURSIVE Zeros(_)
Zeros(n) == IF n <= 0 THEN <<>> ELSE Append(Zeros(n - 1), ZeroPage)

\* fseek to blknum * BLCKSZ and fwrite of one page
WritePage(dst, blknum, p) ==
    IF blknum < Len(dst)
    THEN [dst EXCEPT ![blknum + 1] = p]
    ELSE Append(dst \o Zeros(blknum - Len(dst)), p)

\* fio_ftruncate to nblocks pages
Truncate(dst, nblocks) ==
    IF nblocks <= Len(dst) THEN SubSeq(dst, 1, nblocks)
    ELSE dst \o Zeros(nblocks - Len(dst))

\* fio_fwrite_compressed: decompress the payload and write the page
fio_fwrite_compressed(dst, blknum, data, alg) ==
    LET d == do_decompress(data, alg) IN
    IF d.size = BLCKSZ
    THEN [rc |-> BLCKSZ, dest |-> WritePage(dst, blknum, d.page)]
    ELSE [rc |-> -1, dest |-> dst]

\* what fread finds where a frame should start: a whole frame, or the bytes the
\* file ends with, too few for a header or too few for the payload
OddHeader ==
    [block |-> 0, compressed_size |-> 0,
     data |-> [view |-> NULL, z |-> NULL, alg |-> "ODD"], pad |-> 0]
ShortPayload(b, size) ==
    [block |-> b, compressed_size |-> size,
     data |-> [view |-> NULL, z |-> NULL, alg |-> "SHORT"], pad |-> 0]
header_read(h) == h.data.alg # "ODD"
payload_read(h) == h.data.alg # "SHORT"

\* blknum * BLCKSZ is computed in 32 bits without sign: the offset it gives, in
\* units of BLCKSZ
OffsetWrap == 524288
block_offset(blknum) == blknum % OffsetWrap

\* MAXALIGN is TYPEALIGN(MAXIMUM_ALIGNOF, LEN): the length is converted to
\* uintptr_t before 7 is added and the low bits are cleared, so a negative
\* length wraps.  Sizes are counted here in words of MAXIMUM_ALIGNOF bytes;
\* UintptrWords is 2^32 / 8, the wrap of a 32-bit uintptr_t (a 64-bit one wraps
\* at 2^64 / 8, and every comparison below comes out the same).
UintptrWords == 536870912
BlockWords == BLCKSZ \div MAXIMUM_ALIGNOF
payload_request(compressed_size) ==
    IF compressed_size >= 0
    THEN compressed_size \div MAXIMUM_ALIGNOF
         + (IF compressed_size % MAXIMUM_ALIGNOF = 0 THEN 0 ELSE 1)
    ELSE IF compressed_size + (MAXIMUM_ALIGNOF - 1) >= 0
    THEN 0
    ELSE UintptrWords + ((compressed_size + (MAXIMUM_ALIGNOF - 1)) \div MAXIMUM_ALIGNOF)

\* lines 1021-1022: the test of the size before the payload is read
size_rejected(compressed_size) == compressed_size > BLCKSZ

\* lines 1025-1029: fread of MAXALIGN(compressed_size) bytes returned as many;
\* no file holds the bytes of a request that wrapped
payload_fread(h) ==
    payload_read(h) /\ payload_request(h.compressed_size) <= BlockWords

\* lines 1049-1056: write_pos = blknum * BLCKSZ, and the seek when the tracked
\* position differs from it.  Positions are counted in blocks; pos is the
\* position of the output file, cur_pos the local that tracks it, seeks the
\* number of calls of fio_fseek.
seek_block(st, write_pos) ==
    IF st.cur_pos # write_pos
    THEN [st EXCEPT !.pos = write_pos, !.seeks = st.seeks + 1]
    ELSE st
\* lines 1077-1078: a page was written at the position of the file
page_written(st, write_pos) ==
    [st EXCEPT !.pos = st.pos + 1, !.cur_pos = write_pos + 1,
               !.write_len = st.write_len + BLCKSZ]

\* the loop writing the frames of every block, whatever nblocks is
restore_frame_all_blocks(h, f, backup_version, nblocks, st) ==
    IF ~header_read(h) THEN [st EXCEPT !.ret = "error"]
    ELSE IF h.block = 0 /\ h.compressed_size = 0 THEN st
    ELSE IF h.block < st.blknum THEN [st EXCEPT !.ret = "error"]
    ELSE
      LET s1 == [st EXCEPT !.blknum = h.block] IN
      IF h.compressed_size = PageIsTruncated
      THEN [s1 EXCEPT !.dest = Truncate(st.dest, block_offset(h.block)), !.ret = "return",
                      !.pos = 0, !.seeks = st.seeks + 1]
      ELSE IF size_rejected(h.compressed_size)
      THEN [s1 EXCEPT !.ret = "error"]
      ELSE IF ~payload_fread(h)
      THEN [s1 EXCEPT !.ret = "error", !.payload_req = payload_request(h.compressed_size)]
      ELSE IF \/ h.compressed_size # BLCKSZ
              \/ page_may_be_compressed(h.data, f.compress_alg, backup_version)
      THEN LET s2 == seek_block([s1 EXCEPT !.payload_req = payload_request(h.compressed_size)],
                                block_offset(h.block))
               w == fio_fwrite_compressed(s2.dest, s2.pos, h.data, f.compress_alg) IN
           IF w.rc # BLCKSZ THEN [s2 EXCEPT !.ret = "error"]
           ELSE page_written([s2 EXCEPT !.dest = w.dest], block_offset(h.block))
      ELSE LET s2 == seek_block([s1 EXCEPT !.payload_req = payload_request(h.compressed_size)],
                                block_offset(h.block)) IN
           page_written([s2 EXCEPT !.dest = WritePage(s2.dest, s2.pos, h.data.view)],
                        block_offset(h.block))

\* lines 937-1079, one pass of the loop over the frame h that fread finds;
\* st is [dest, blknum, write_len, ret, cur_pos, pos, seeks, payload_req], ret
\* "none" while the loop goes on
restore_frame(h, f, backup_version, nblocks, st) ==
    IF ~header_read(h) THEN [st EXCEPT !.ret = "error"]
    ELSE IF h.block = 0 /\ h.compressed_size = 0 THEN st
    ELSE IF h.block < st.blknum THEN [st EXCEPT !.ret = "error"]
    ELSE
      LET s1 == [st EXCEPT !.blknum = h.block] IN
      IF h.compressed_size = PageIsTruncated
      THEN [s1 EXCEPT !.dest = Truncate(st.dest, block_offset(h.block)), !.ret = "return",
                      !.pos = 0, !.seeks = st.seeks + 1]
      ELSE IF nblocks > 0 /\ h.block >= nblocks
      THEN [s1 EXCEPT !.ret = "return"]
      ELSE IF size_rejected(h.compressed_size)
      THEN [s1 EXCEPT !.ret = "error"]
      ELSE IF ~payload_fread(h)
      THEN [s1 EXCEPT !.ret = "error", !.payload_req = payload_request(h.compressed_size)]
      ELSE IF \/ h.compressed_size # BLCKSZ
              \/ page_may_be_compressed(h.data, f.compress_alg, backup_version)
      THEN LET s2 == seek_block([s1 EXCEPT !.payload_req = payload_request(h.compressed_size)],
                                block_offset(h.block))
               w == fio_fwrite_compressed(s2.dest, s2.pos, h.data, f.compress_alg) IN
           IF w.rc # BLCKSZ THEN [s2 EXCEPT !.ret = "error"]
           ELSE page_written([s2 EXCEPT !.dest = w.dest], block_offset(h.block))
      ELSE LET s2 == seek_block([s1 EXCEPT !.payload_req = payload_request(h.compressed_size)],
                                block_offset(h.block)) IN
           page_written([s2 EXCEPT !.dest = WritePage(s2.dest, s2.pos, h.data.view)],
                        block_offset(h.block))

RECURSIVE restore_loop(_, _, _, _, _, _)
restore_loop(frames, i, f, backup_version, nblocks, st) ==
    IF st.ret # "none" THEN st
    ELSE IF i > Len(frames) THEN [st EXCEPT !.ret = "return"]
    ELSE restore_loop(frames, i + 1, f, backup_version, nblocks,
                      restore_frame(frames[i], f, backup_version, nblocks, st))

\* lines 914-1083
restore_data_file_internal(frames, dst, f, backup_version, nblocks) ==
    restore_loop(frames, 1, f, backup_version, nblocks,
                 [dest |-> dst, blknum |-> 0, write_len |-> 0, ret |-> "none",
                  cur_pos |-> 0, pos |-> 0, seeks |-> 1, payload_req |-> 0])

\* lines 847-908: the chain is walked from its last member, the FULL backup, to
\* its first; a member is [file, stream, version], file NULL when the backup
\* does not list the file.  r is [dest, total_write_len, ret].
\* the chain walked from the newest backup to the FULL backup
RECURSIVE restore_chain_newest_first(_, _, _, _)
restore_chain_newest_first(chain, i, dfile, r) ==
    IF i < 1 \/ r.ret = "error" THEN r
    ELSE
      LET backup == chain[Len(chain) - i + 1]
          tmp_file == backup.file
      IN
      IF tmp_file = NULL \/ tmp_file.write_size \in {BYTES_INVALID, 0}
      THEN restore_chain_newest_first(chain, i - 1, dfile, r)
      ELSE IF ~backup.stream.exists THEN [r EXCEPT !.ret = "error"]
      ELSE
        LET s == restore_data_file_internal(backup.stream.frames, r.dest, tmp_file,
                                            backup.version, dfile.n_blocks)
        IN  restore_chain_newest_first(chain, i - 1, dfile,
                          [dest |-> s.dest,
                           total_write_len |-> r.total_write_len + s.write_len,
                           ret |-> IF s.ret = "error" THEN "error" ELSE "none"])

RECURSIVE restore_chain(_, _, _, _)
restore_chain(chain, i, dfile, r) ==
    IF i < 1 \/ r.ret = "error" THEN r
    ELSE
      LET backup == chain[i]
          tmp_file == backup.file
      IN
      IF tmp_file = NULL THEN restore_chain(chain, i - 1, dfile, r)
      ELSE IF tmp_file.write_size = BYTES_INVALID
      THEN restore_chain(chain, i - 1, dfile, r)
      ELSE IF tmp_file.write_size = 0
      THEN restore_chain(chain, i - 1, dfile, r)
      ELSE IF ~backup.stream.exists THEN [r EXCEPT !.ret = "error"]
      ELSE
        LET s == restore_data_file_internal(backup.stream.frames, r.dest, tmp_file,
                                            backup.version, dfile.n_blocks)
        IN  restore_chain(chain, i - 1, dfile,
                          [dest |-> s.dest,
                           total_write_len |-> r.total_write_len + s.write_len,
                           ret |-> IF s.ret = "error" THEN "error" ELSE "none"])

\* lines 840-912: out is a fresh destination file
restore_data_file(chain, dfile) ==
    LET r == restore_chain(chain, Len(chain), dfile,
                           [dest |-> <<>>, total_write_len |-> 0, ret |-> "none"])
    IN  [r EXCEPT !.ret = IF r.ret = "error" THEN "error" ELSE "return"]

(***************************************************************************)
(* check_file_pages.  st is [crc, is_valid, ret]: ret is "none" while the  *)
(* loop goes on, "false" after an early return false, "assert" when the    *)
(* assertion on compressed_size fails.                                     *)
(***************************************************************************)
\* line 1502
use_crc32c(backup_version) == backup_version <= 20021 \/ backup_version >= 20025

\* the validator taking a page with a wrong checksum for a good one
check_frame_ignores_checksum(h, f, stop, cksum_version, backup_version, st) ==
    LET blknum == 0
        s1 == [st EXCEPT !.crc = COMP_FILE_CRC32(st.crc,
                                     <<HeaderBytes(h, BackupPageHeaderSize)>>)]
    IN
    IF ~header_read(h) THEN [st EXCEPT !.ret = "false"]
    ELSE IF h.block = 0 /\ h.compressed_size = 0 THEN s1
    ELSE IF h.block < blknum THEN [s1 EXCEPT !.ret = "false"]
    ELSE IF h.compressed_size = PageIsTruncated THEN s1
    ELSE IF h.compressed_size > BLCKSZ THEN [s1 EXCEPT !.ret = "assert"]
    ELSE IF h.compressed_size < 0 THEN [s1 EXCEPT !.ret = "false"]
    ELSE IF ~payload_read(h) THEN [s1 EXCEPT !.ret = "false"]
    ELSE
      LET s2 == [s1 EXCEPT !.crc = COMP_FILE_CRC32(s1.crc,
                                       <<PayloadBytes(h, MAXALIGN(h.compressed_size))>>)]
          absolute == f.segno * RELSEG_SIZE + h.block
      IN
      IF \/ h.compressed_size # BLCKSZ
         \/ page_may_be_compressed(h.data, f.compress_alg, backup_version)
      THEN LET d == do_decompress(h.data, f.compress_alg) IN
           IF d.size # BLCKSZ
           THEN IF h.compressed_size = BLCKSZ
                THEN [s2 EXCEPT !.is_valid = FALSE]
                ELSE [s2 EXCEPT !.ret = "false"]
           ELSE LET v == validate_one_page(d.page, absolute, stop, cksum_version, 0)
                IN  IF v.rc \in {"PAGE_HEADER_IS_INVALID"}
                    THEN [s2 EXCEPT !.is_valid = FALSE] ELSE s2
      ELSE LET v == validate_one_page(h.data.view, absolute, stop, cksum_version, 0)
           IN  IF v.rc \in {"PAGE_HEADER_IS_INVALID"}
               THEN [s2 EXCEPT !.is_valid = FALSE] ELSE s2

\* lines 1525-1654, one pass of the loop over the frame h that fread finds
check_frame(h, f, stop, cksum_version, backup_version, st) ==
    LET blknum == 0
        s1 == [st EXCEPT !.crc = COMP_FILE_CRC32(st.crc,
                                     <<HeaderBytes(h, BackupPageHeaderSize)>>)]
    IN
    IF ~header_read(h) THEN [st EXCEPT !.ret = "false"]
    ELSE IF h.block = 0 /\ h.compressed_size = 0 THEN s1
    ELSE IF h.block < blknum THEN [s1 EXCEPT !.ret = "false"]
    ELSE IF h.compressed_size = PageIsTruncated THEN s1
    ELSE IF h.compressed_size > BLCKSZ THEN [s1 EXCEPT !.ret = "assert"]
    ELSE IF h.compressed_size < 0 THEN [s1 EXCEPT !.ret = "false"]
    ELSE IF ~payload_read(h) THEN [s1 EXCEPT !.ret = "false"]
    ELSE
      LET s2 == [s1 EXCEPT !.crc = COMP_FILE_CRC32(s1.crc,
                                       <<PayloadBytes(h, MAXALIGN(h.compressed_size))>>)]
          absolute == f.segno * RELSEG_SIZE + h.block
      IN
      IF \/ h.compressed_size # BLCKSZ
         \/ page_may_be_compressed(h.data, f.compress_alg, backup_version)
      THEN LET d == do_decompress(h.data, f.compress_alg) IN
           IF d.size # BLCKSZ
           THEN IF h.compressed_size = BLCKSZ
                THEN [s2 EXCEPT !.is_valid = FALSE]
                ELSE [s2 EXCEPT !.ret = "false"]
           ELSE LET v == validate_one_page(d.page, absolute, stop, cksum_version, 0)
                IN  IF v.rc \in {"PAGE_HEADER_IS_INVALID", "PAGE_CHECKSUM_MISMATCH"}
                    THEN [s2 EXCEPT !.is_valid = FALSE] ELSE s2
      ELSE LET v == validate_one_page(h.data.view, absolute, stop, cksum_version, 0)
           IN  IF v.rc \in {"PAGE_HEADER_IS_INVALID", "PAGE_CHECKSUM_MISMATCH"}
               THEN [s2 EXCEPT !.is_valid = FALSE] ELSE s2

RECURSIVE check_loop(_, _, _, _, _, _, _)
check_loop(frames, i, f, stop, cksum_version, backup_version, st) ==
    IF st.ret # "none" \/ i > Len(frames) THEN st
    ELSE check_loop(frames, i + 1, f, stop, cksum_version, backup_version,
                    check_frame(frames[i], f, stop, cksum_version, backup_version, st))

\* lines 1494-1668: the result is [ret, crc]; ret is the value returned, or
\* "assert"; crc is the checksum when the loop ended at the end of the file
check_file_pages(f, stream, stop, cksum_version, backup_version) ==
    IF ~stream.exists THEN [ret |-> "false", crc |-> NULL, at_eof |-> FALSE]
    ELSE
      LET st == check_loop(stream.frames, 1, f, stop, cksum_version, backup_version,
                           [crc |-> INIT_FILE_CRC32(use_crc32c(backup_version)),
                            is_valid |-> TRUE, ret |-> "none"])
          crc == FIN_FILE_CRC32(st.crc)
      IN
      IF st.ret # "none" THEN [ret |-> st.ret, crc |-> st.crc, at_eof |-> FALSE]
      ELSE [ret |-> IF st.is_valid /\ crc = f.crc THEN "true" ELSE "false",
            crc |-> crc, at_eof |-> TRUE]

(***************************************************************************)
(* The loops of restore_data_file_internal and check_file_pages taken one   *)
(* pass at a time over the stream out; dest and val hold the locals of the  *)
(* loop and i, the number of frame headers read so far.                     *)
(***************************************************************************)
\* lines 918-935: the locals of restore_data_file_internal and the first seek
RestoreInternalBegin ==
    /\ pc = "ri_begin"
    /\ dest' = [dest |-> <<>>, blknum |-> 0, write_len |-> 0, ret |-> "none", i |-> 0,
                cur_pos |-> 0, pos |-> 0, seeks |-> 1, payload_req |-> 0]
    /\ pc' = "ri_loop"
    /\ UNCHANGED <<file, bk_args, disk, bk, out, val, ppVars>>

\* lines 937-1079: one pass of the loop
RestoreInternalStep ==
    /\ pc = "ri_loop"
    /\ IF interrupted
       THEN dest' = [dest EXCEPT !.ret = "interrupted"]
       ELSE IF dest.i = Len(out.frames)
       THEN dest' = [dest EXCEPT !.ret = "return"]
       ELSE dest' = [restore_frame(out.frames[dest.i + 1], file, bk_args.backup_version,
                                   file.n_blocks, dest) EXCEPT !.i = dest.i + 1]
    /\ pc' = IF dest'.ret = "none" THEN "ri_loop" ELSE "ri_done"
    /\ UNCHANGED <<file, bk_args, disk, bk, out, val, ppVars>>

\* lines 1498-1520: the locals of check_file_pages, the stream opened
CheckFileBegin ==
    /\ pc = "ri_done"
    /\ val' = [crc |-> INIT_FILE_CRC32(use_crc32c(bk_args.backup_version)),
               is_valid |-> TRUE, ret |-> IF out.exists THEN "none" ELSE "false",
               at_eof |-> FALSE, i |-> 0,
               in |-> IF out.exists THEN "open" ELSE "null"]
    /\ pc' = IF out.exists THEN "cf_loop" ELSE "cf_done"
    /\ UNCHANGED <<file, bk_args, disk, bk, out, dest, ppVars>>

\* lines 1523-1667: one pass of the loop, and what follows it at the end of
\* the file
CheckFileStep ==
    /\ pc = "cf_loop"
    /\ IF interrupted
       THEN val' = [val EXCEPT !.ret = "interrupted"]
       ELSE IF val.i = Len(out.frames)
       THEN LET crc == FIN_FILE_CRC32(val.crc) IN
            val' = [val EXCEPT !.crc = crc, !.at_eof = TRUE, !.in = "closed",
                               !.ret = IF val.is_valid /\ crc = file.crc
                                       THEN "true" ELSE "false"]
       ELSE val' = [check_frame(out.frames[val.i + 1], file, bk_args.stop_lsn,
                                bk_args.checksum_version, bk_args.backup_version, val)
                    EXCEPT !.i = val.i + 1]
    /\ pc' = IF val'.ret = "none" THEN "cf_loop" ELSE "cf_done"
    /\ UNCHANGED <<file, bk_args, disk, bk, out, dest, ppVars>>

(***************************************************************************)
(* SpecBackup: one run of backup_data_file in local mode over a source     *)
(* file of at most MaxBlocks blocks, then restore_data_file over the chain *)
(* made of that one backup, then check_file_pages over its stream          *)
(***************************************************************************)
MaxBlocks == 2
MaxTorn == 1

\* what a block of the source file may hold: valid pages older than, at and
\* after the parent backup's start, and a zeroed page
DiskPages(blkno) ==
    { ValidPage(lsn, 0, blkno) : lsn \in {0, PrevStartLsn - 1, PrevStartLsn} }
    \cup {ZeroPage}
\* the source files of n blocks
RECURSIVE DisksOfLen(_)
DisksOfLen(n) ==
    IF n = 0 THEN {<<>>}
    ELSE { Append(d, p) : d \in DisksOfLen(n - 1), p \in DiskPages(n - 1) }
\* file->size was taken before the run: since then the file may have lost or
\* gained a block; a size that is no multiple of BLCKSZ is only warned about
FileShapes ==
    UNION { { <<k * BLCKSZ, d>> : d \in DisksOfLen(n) } :
              k \in 0..MaxBlocks, n \in 0..MaxBlocks }
    \cup { <<BLCKSZ + 100, d>> : d \in DisksOfLen(1) }

NoPagemap == [bitmapsize |-> PageBitmapIsEmpty, bits |-> {}]
Pagemaps == { [bitmapsize |-> 1, bits |-> s] : s \in SUBSET (0..MaxBlocks) }
\* backup_mode, ptrack_version_num, exists_in_prev, pagemap, pagemap_isabsent,
\* prev_backup_start_lsn: only PAGE and PTRACK backups build a pagemap, only
\* PTRACK 1.x can miss it
BackupModes ==
    { <<"FULL", 0, FALSE, NoPagemap, FALSE, InvalidXLogRecPtr>> }
    \cup { <<"DELTA", 0, e, NoPagemap, FALSE, PrevStartLsn>> : e \in BOOLEAN }
    \cup { <<"PAGE", 0, FALSE, NoPagemap, FALSE, PrevStartLsn>> }
    \cup { <<"PAGE", 0, TRUE, m, FALSE, PrevStartLsn>> : m \in Pagemaps \cup {NoPagemap} }
    \cup { <<"PTRACK", v, FALSE, NoPagemap, FALSE, PrevStartLsn>> : v \in {15, 20} }
    \cup { <<"PTRACK", v, TRUE, m, FALSE, PrevStartLsn>> :
             v \in {15, 20}, m \in Pagemaps \cup {NoPagemap} }
    \cup { <<"PTRACK", 15, TRUE, NoPagemap, TRUE, PrevStartLsn>> }
\* the version this writer stamps on its backups: not below the newest one the
\* reader knows of
ProgramVersions == {20025}

\* errno of opening the source: none, the file is not there, or it is there and
\* cannot be opened
OpenErrnos == {"none", "ENOENT", "EACCES"}

InitBackup ==
    /\ pc = "bk_begin"
    /\ IdlePage
    /\ IdlePrepare
    /\ \E m \in BackupModes, s \in FileShapes, calg \in CompressAlgs,
          version \in ProgramVersions, errno \in OpenErrnos, missing_ok \in BOOLEAN :
         /\ Len(s[2]) - (s[1] \div BLCKSZ) \in {-1, 0, 1}
         /\ errno = "none" \/ (Len(s[2]) = 0 /\ calg = "NONE")
         /\ missing_ok \/ errno # "none"
         /\ file = [size |-> s[1], n_blocks |-> 0, read_size |-> 0, write_size |-> 0,
                    uncompressed_size |-> 0, crc |-> INIT_FILE_CRC32(TRUE),
                    exists_in_prev |-> m[3], pagemap |-> m[4], pagemap_isabsent |-> m[5],
                    compress_alg |-> "NONE", segno |-> 0]
         /\ bk_args = [prev_backup_start_lsn |-> m[6], backup_mode |-> m[1], calg |-> calg,
                       checksum_version |-> 1, ptrack_version_num |-> m[2],
                       missing_ok |-> missing_ok, backup_version |-> version]
         /\ disk = [exists |-> errno # "ENOENT", errno |-> errno, pages |-> s[2]]
    /\ bk = [blknum |-> 0, nblocks |-> 0, n_blocks_skipped |-> 0, use_pagemap |-> FALSE,
             iter |-> 0, curr_page |-> StalePage, ret |-> "none"]
    /\ out = [exists |-> FALSE, frames |-> <<>>]
    /\ dest = <<>>
    /\ val = <<>>
    /\ IdleChain

\* what fio_pread finds at the block: the page on disk, or the end of the file;
\* the first MaxTorn reads of a block may also catch it half written, come back
\* short or fail
BackupReads ==
    LET b == pp_args.blknum
        now == IF b < Len(disk.pages)
               THEN {FullRead(disk.pages[b + 1])} ELSE {EofRead}
    IN  IF pp.nreads < MaxTorn /\ b < Len(disk.pages)
        THEN now \cup {FullRead(TornSum(PrevStartLsn, 1, b)), ShortRead, FailedRead}
        ELSE now

\* what pg_ptrack_get_block finds in the shared buffers: nothing, the page of the
\* disk with a checksum not yet recomputed, a newer version of it, a zeroed page
BackupTracker ==
    LET b == pp_args.blknum IN
    IF ~uses_tracker(pp_args) THEN {NoTracker}
    ELSE {NoTracker, [ptr |-> ZeroPage, size |-> BLCKSZ],
          [ptr |-> [ValidPage(MaxLsn, 1, b) EXCEPT !.pd_checksum = 0], size |-> BLCKSZ]}
         \cup (IF b < Len(disk.pages)
               THEN {[ptr |-> [disk.pages[b + 1] EXCEPT !.pd_checksum = 0], size |-> BLCKSZ]}
               ELSE {})

\* restore_data_file over the chain of this one backup, into a fresh file
RestoreChainOfOne ==
    /\ pc = "bk_done"
    /\ dest' = restore_data_file(<<[file |-> file, stream |-> out,
                                    version |-> bk_args.backup_version]>>, file)
    /\ pc' = "restored"
    /\ UNCHANGED <<file, bk_args, disk, bk, out, val, ppVars>>

\* check_file_pages over the stream of this backup
ValidateStream ==
    /\ pc = "restored"
    /\ \E stop \in {InvalidXLogRecPtr, PrevStartLsn} :
         val' = check_file_pages(file, out, stop, bk_args.checksum_version,
                                 bk_args.backup_version)
    /\ pc' = "checked"
    /\ UNCHANGED <<file, bk_args, disk, bk, out, dest, ppVars>>

NextBackup ==
    \/ BackupBegin /\ UNCHANGED <<vpVars, chVars>>
    \/ BackupLoop /\ UNCHANGED <<vpVars, chVars>>
    \/ PrepareEnter /\ UNCHANGED <<vpVars, bkVars, chVars>>
    \/ PrepareRead(BackupReads) /\ UNCHANGED <<vpVars, bkVars, chVars>>
    \/ PrepareLoopEnd /\ UNCHANGED <<vpVars, bkVars, chVars>>
    \/ PrepareTail(BackupTracker) /\ UNCHANGED <<vpVars, bkVars, chVars>>
    \/ BackupPageDone /\ UNCHANGED <<vpVars, chVars>>
    \/ BackupFinish /\ UNCHANGED <<vpVars, chVars>>
    \/ RestoreChainOfOne /\ UNCHANGED <<vpVars, chVars>>
    \/ ValidateStream /\ UNCHANGED <<vpVars, chVars>>

SpecBackup == InitBackup /\ [][NextBackup]_vars

(***************************************************************************)
(* SpecChain: restore_data_file over a parent chain of at most MaxChain    *)
(* backups of one file, into a fresh destination                           *)
(***************************************************************************)
MaxChain == 2

\* the frames a backup wrote for the blocks of s, in ascending order; the page of
\* block b in the k-th member of the chain is ValidPage(k, 0, b)
RECURSIVE MemberFrames(_, _, _)
MemberFrames(k, s, b) ==
    IF b > MaxBlocks THEN <<>>
    ELSE (IF b \in s THEN <<make_frame(b, ValidPage(k, 0, b), "ZLIB", 0)>> ELSE <<>>)
         \o MemberFrames(k, s, b + 1)
\* the frame older versions wrote for a block found truncated
TruncationMarker(b) ==
    [block |-> b, compressed_size |-> PageIsTruncated, data |-> RawData(ZeroPage), pad |-> 0]
MemberFile(write_size, n_blocks) ==
    [write_size |-> write_size, n_blocks |-> n_blocks, compress_alg |-> "ZLIB", segno |-> 0]
NoStream == [exists |-> FALSE, frames |-> <<>>]
\* what the k-th member of the chain may hold for the file: nothing, a file not
\* backed up because it did not change, an empty file, a stream with frames for
\* some blocks, or such a stream of an older version ending in a truncation marker
ChainMembers(k) ==
    { [file |-> NULL, stream |-> NoStream, version |-> 20025],
      [file |-> MemberFile(BYTES_INVALID, MaxBlocks), stream |-> NoStream, version |-> 20025],
      [file |-> MemberFile(0, 0), stream |-> NoStream, version |-> 20025] }
    \cup { [file |-> MemberFile(Cardinality(s) * (BackupPageHeaderSize + BLCKSZ),
                                1 + CHOOSE b \in s : \A c \in s : c <= b),
            stream |-> [exists |-> TRUE, frames |-> MemberFrames(k, s, 0)],
            version |-> 20025] : s \in (SUBSET (0..MaxBlocks)) \ {{}} }
    \cup { [file |-> MemberFile(BackupPageHeaderSize, 0),
            stream |-> [exists |-> TRUE, frames |-> <<TruncationMarker(0)>>],
            version |-> 20021],
           [file |-> MemberFile(2 * BackupPageHeaderSize + BLCKSZ, 0),
            stream |-> [exists |-> TRUE,
                        frames |-> MemberFrames(k, {0}, 0) \o <<TruncationMarker(1)>>],
            version |-> 20021] }
\* parent_chain[1] is the backup being restored, the last member the FULL backup
\* the chains whose members k..n are chosen
RECURSIVE ChainsFrom(_, _)
ChainsFrom(k, n) ==
    IF k > n THEN {<<>>}
    ELSE { <<m>> \o c : m \in ChainMembers(k), c \in ChainsFrom(k + 1, n) }
Chains == { c \in UNION { ChainsFrom(1, n) : n \in 1..MaxChain } : c[1].file # NULL }
\* the blocks a stream has page frames for
StreamBlocks(stream) ==
    { stream.frames[i].block : i \in { j \in 1..Len(stream.frames) :
                                         stream.frames[j].compressed_size # PageIsTruncated } }

InitChain ==
    /\ pc = "rs_begin"
    /\ IdlePage /\ IdlePrepare
    /\ file = <<>> /\ bk_args = <<>> /\ disk = <<>> /\ bk = <<>>
    /\ out = <<>> /\ dest = <<>> /\ val = <<>>
    /\ parent_chain \in Chains
    /\ \E n \in 0..(MaxBlocks + 1) :
         /\ n = 0 \/ \A b \in StreamBlocks(parent_chain[1].stream) : b < n
         /\ dest_file = [parent_chain[1].file EXCEPT !.n_blocks = n]

\* lines 840-912
RestoreChain ==
    /\ pc = "rs_begin"
    /\ dest' = restore_data_file(parent_chain, dest_file)
    /\ pc' = "rs_done"
    /\ UNCHANGED <<file, bk_args, disk, bk, out, val, parent_chain, dest_file, vpVars, ppVars>>

NextChain == RestoreChain

SpecChain == InitChain /\ [][NextChain]_vars

(***************************************************************************)
(* SpecStream: restore_data_file_internal, then check_file_pages, over one *)
(* stream file of at most MaxFrames frames that any writer, or damage to   *)
(* the file, may have left                                                 *)
(***************************************************************************)
MaxFrames == 2

\* the frame older versions left for a block of zero bytes
EmptyFrame == [block |-> 0, compressed_size |-> 0, data |-> RawData(ZeroPage), pad |-> 0]
\* the pages a frame of block b may carry: valid, valid with an lsn past the
\* stop lsn, zeroed, with a wrong checksum, with a header that is not sane
StreamPages(b) ==
    { ValidPage(PrevStartLsn, 0, b), ValidPage(MaxLsn, 0, b), ZeroPage,
      TornSum(PrevStartLsn, 1, b), TornHdr }
\* the whole frames of a stream whose file records the algorithm alg
StreamFrames(alg) ==
    UNION { { make_frame(b, p, alg, 0) : p \in StreamPages(b) } : b \in 0..(MaxBlocks - 1) }
    \cup { EmptyFrame }
    \cup { TruncationMarker(b) : b \in {0, 1, OffsetWrap} }
    \* a page of a block whose byte offset does not fit 32 bits
    \cup { make_frame(OffsetWrap, ValidPage(PrevStartLsn, 0, OffsetWrap), alg, 0) }
    \* a compressed_size past BLCKSZ
    \cup { [block |-> 1, compressed_size |-> BLCKSZ + MAXIMUM_ALIGNOF,
            data |-> RawData(ValidPage(PrevStartLsn, 0, 1)), pad |-> 0] }
    \* a payload that is not what the algorithm produced
    \cup { [block |-> 0, compressed_size |-> 104,
            data |-> RawData(ValidPage(PrevStartLsn, 0, 0)), pad |-> 0] }
    \* a page stored as it is, with a header that is not sane
    \cup { [block |-> 0, compressed_size |-> BLCKSZ, data |-> RawData(TornHdr), pad |-> 0] }
    \* a page that compressed to BLCKSZ bytes, as versions before 2.0.23 stored it
    \cup (IF alg = "NONE" THEN {}
          ELSE { [block |-> 0, compressed_size |-> BLCKSZ,
                  data |-> ZData(ValidPage(PrevStartLsn, 0, 0), alg), pad |-> 0] })
\* what a file may end with
StreamTails == { OddHeader, ShortPayload(1, BLCKSZ) }
RECURSIVE StreamsOfLen(_, _)
StreamsOfLen(alg, n) ==
    IF n = 0 THEN {<<>>}
    ELSE { Append(t, h) : t \in StreamsOfLen(alg, n - 1), h \in StreamFrames(alg) }
Streams(alg) ==
    UNION { StreamsOfLen(alg, n) : n \in 0..MaxFrames }
    \cup UNION { { Append(t, h) : t \in StreamsOfLen(alg, n), h \in StreamTails } :
                   n \in 0..(MaxFrames - 1) }

\* the bytes of the file, as a checksum over the whole file takes them
FrameBytes(h) ==
    IF ~header_read(h) THEN <<>>
    ELSE <<HeaderBytes(h, BackupPageHeaderSize)>>
         \o (IF h.compressed_size > 0 /\ payload_read(h)
             THEN <<PayloadBytes(h, MAXALIGN(h.compressed_size))>> ELSE <<>>)
RECURSIVE StreamBytes(_, _)
StreamBytes(frames, i) ==
    IF i > Len(frames) THEN <<>> ELSE FrameBytes(frames[i]) \o StreamBytes(frames, i + 1)
FileCrc(frames, crc32c) ==
    FIN_FILE_CRC32(COMP_FILE_CRC32(INIT_FILE_CRC32(crc32c), StreamBytes(frames, 1)))
\* a checksum that is not the checksum of the file
WrongCrc == [poly |-> "crc32c", data |-> <<HeaderBytes(OddHeader, 1)>>]

\* compress_alg of the file and the version of the backup it belongs to
StreamKinds ==
    { <<"ZLIB", 20025>>, <<"ZLIB", 20021>>, <<"PGLZ", 20022>>, <<"NONE", 20025>> }

InitStream ==
    /\ pc = "ri_begin"
    /\ IdlePage /\ IdlePrepare /\ IdleChain
    /\ disk = <<>> /\ bk = <<>> /\ dest = <<>> /\ val = <<>>
    /\ \E k \in StreamKinds, n \in {0, 1}, right \in BOOLEAN :
         \E frames \in Streams(k[1]) :
           /\ out = [exists |-> TRUE, frames |-> frames]
           /\ file = [write_size |-> BackupPageHeaderSize, n_blocks |-> n,
                      compress_alg |-> k[1], segno |-> 0,
                      crc |-> IF right THEN FileCrc(frames, use_crc32c(k[2]))
                              ELSE WrongCrc]
           /\ bk_args = [backup_version |-> k[2], checksum_version |-> 1,
                         stop_lsn |-> PrevStartLsn]

NextStream ==
    \/ RestoreInternalBegin /\ UNCHANGED <<vpVars, chVars>>
    \/ RestoreInternalStep /\ UNCHANGED <<vpVars, chVars>>
    \/ CheckFileBegin /\ UNCHANGED <<vpVars, chVars>>
    \/ CheckFileStep /\ UNCHANGED <<vpVars, chVars>>

SpecStream == InitStream /\ [][NextStream]_vars

(***************************************************************************)
(* SpecCancel: the flag interrupted || thread_interrupted set while        *)
(* backup_data_file, restore_data_file_internal or check_file_pages runs   *)
(***************************************************************************)
\* the positions inside the loop of backup_data_file
BackupLoopPcs == {"bk_loop", "pp_enter", "pp_loop", "pp_tail", "pp_done"}
\* the positions at which a run is over
EndPcs == {"bk_done", "bk_error", "cf_done"}

\* a run of backup_data_file over a source file that opens, or a run of the two
\* readers over a stream written without compression
InitCancel ==
    \/ /\ InitBackup
       /\ disk.errno = "none" /\ bk_args.missing_ok
       /\ bk_args.calg = "NONE" /\ bk_args.backup_version = 20025
    \/ /\ InitStream
       /\ file.compress_alg = "NONE" /\ file.n_blocks = 0

\* the signal handler sets the flag, at any moment of a run
Interrupt ==
    /\ ~interrupted
    /\ pc \notin EndPcs
    /\ interrupted' = TRUE
    /\ UNCHANGED <<pc, vpVars, pp_args, pp, bkVars, chVars>>

\* the steps of the program
ProgramCancel ==
    \/ BackupBegin /\ UNCHANGED <<vpVars, chVars>>
    \/ BackupLoop /\ UNCHANGED <<vpVars, chVars>>
    \/ PrepareEnter /\ UNCHANGED <<vpVars, bkVars, chVars>>
    \/ PrepareRead(BackupReads) /\ UNCHANGED <<vpVars, bkVars, chVars>>
    \/ PrepareLoopEnd /\ UNCHANGED <<vpVars, bkVars, chVars>>
    \/ PrepareTail(BackupTracker) /\ UNCHANGED <<vpVars, bkVars, chVars>>
    \/ BackupPageDone /\ UNCHANGED <<vpVars, chVars>>
    \/ BackupFinish /\ UNCHANGED <<vpVars, chVars>>
    \/ RestoreInternalBegin /\ UNCHANGED <<vpVars, chVars>>
    \/ RestoreInternalStep /\ UNCHANGED <<vpVars, chVars>>
    \/ CheckFileBegin /\ UNCHANGED <<vpVars, chVars>>
    \/ CheckFileStep /\ UNCHANGED <<vpVars, chVars>>

NextCancel == ProgramCancel \/ Interrupt

\* a run that can take a step takes one
SpecCancel == InitCancel /\ [][NextCancel]_vars /\ WF_vars(ProgramCancel)

(***************************************************************************)
(* SpecCheck: check_data_file over a source file of at most MaxBlocks      *)
(* blocks.  bk holds the locals [blknum, nblocks, is_valid, in, ret], in   *)
(* the handle on the file.                                                 *)
(***************************************************************************)
\* what a block of the checked file may hold: a valid page, a zeroed page, a
\* page with a wrong checksum, a page with an invalid header
CheckedPages(blkno) ==
    {ValidPage(PrevStartLsn, 0, blkno), ZeroPage, TornSum(PrevStartLsn, 1, blkno), TornHdr}
RECURSIVE CheckedDisksOfLen(_)
CheckedDisksOfLen(n) ==
    IF n = 0 THEN {<<>>}
    ELSE { Append(d, p) : d \in CheckedDisksOfLen(n - 1), p \in CheckedPages(n - 1) }

\* what fio_pread finds at the block: the page of the file, or its end; the
\* first MaxTorn reads of a block may also catch it half written, come back
\* short or fail
CheckReads ==
    LET b == pp_args.blknum
        now == IF b < Len(disk.pages)
               THEN {FullRead(disk.pages[b + 1])} ELSE {EofRead}
    IN  IF pp.nreads < MaxTorn /\ b < Len(disk.pages)
        THEN now \cup {FullRead(TornHdr), ShortRead, FailedRead}
        ELSE now

InitCheck ==
    /\ pc = "cd_begin"
    /\ IdlePage /\ IdlePrepare /\ IdleChain
    /\ out = <<>> /\ dest = <<>> /\ val = <<>>
    /\ \E k \in 0..MaxBlocks, n \in 0..MaxBlocks, errno \in OpenErrnos,
          cv \in {0, 1}, odd \in {0, 1} :
         \E d \in CheckedDisksOfLen(n) :
           /\ errno = "none" \/ (n = 0 /\ cv = 1 /\ odd = 0)
           /\ file = [size |-> k * BLCKSZ + odd, segno |-> 0, exists_in_prev |-> FALSE]
           /\ bk_args = [checksum_version |-> cv]
           /\ disk = [exists |-> errno # "ENOENT", errno |-> errno, pages |-> d]
    /\ bk = [blknum |-> 0, nblocks |-> 0, is_valid |-> TRUE, in |-> "null", ret |-> "none"]

\* lines 1440-1465: the file opened, the number of blocks computed
CheckDataBegin ==
    /\ pc = "cd_begin"
    /\ IF fio_fopen(disk) = NULL
       THEN /\ bk' = [bk EXCEPT !.ret = IF disk.errno = "ENOENT" THEN "true" ELSE "false"]
            /\ pc' = "cd_done"
       ELSE /\ bk' = [bk EXCEPT !.in = "open", !.nblocks = file.size \div BLCKSZ]
            /\ pc' = "cd_loop"
    /\ UNCHANGED <<file, bk_args, disk, out, dest, val, ppVars>>

\* lines 1467-1473 and 1489-1490: the loop condition, the call of prepare_page,
\* and the return when the loop is over
CheckDataLoop ==
    /\ pc = "cd_loop"
    /\ IF bk.blknum < bk.nblocks
       THEN /\ pp_args' = [segno |-> file.segno, exists_in_prev |-> file.exists_in_prev,
                           prev_backup_start_lsn |-> InvalidXLogRecPtr,
                           blknum |-> bk.blknum, backup_mode |-> "FULL",
                           page |-> StalePage, strict |-> FALSE,
                           checksum_version |-> bk_args.checksum_version,
                           ptrack_version_num |-> 0]
            /\ bk' = bk
            /\ pc' = "pp_enter"
       ELSE /\ pp_args' = pp_args
            /\ bk' = [bk EXCEPT !.in = "closed",
                                !.ret = IF bk.is_valid THEN "true" ELSE "false"]
            /\ pc' = "cd_done"
    /\ UNCHANGED <<file, bk_args, disk, out, dest, val, pp, interrupted>>

\* the verdict of the last block taken for the verdict of the file
still_valid_last_block(is_valid, page_state) == page_state # PageIsCorrupted

\* lines 1478-1485: is_valid after a block of state page_state
still_valid(is_valid, page_state) == is_valid /\ page_state # PageIsCorrupted

\* lines 1475-1490: what the loop does with prepare_page's answer
CheckDataPageDone ==
    /\ pc = "pp_done"
    /\ IF pp.ret # "return"
       THEN /\ bk' = [bk EXCEPT !.ret = pp.ret]
            /\ pc' = "cd_error"
       ELSE IF pp.state = PageIsTruncated
       THEN /\ bk' = [bk EXCEPT !.in = "closed",
                                !.ret = IF bk.is_valid THEN "true" ELSE "false"]
            /\ pc' = "cd_done"
       ELSE /\ bk' = [bk EXCEPT !.is_valid = still_valid(bk.is_valid, pp.state),
                                !.blknum = bk.blknum + 1]
            /\ pc' = "cd_loop"
    /\ pp' = <<>>
    /\ UNCHANGED <<file, bk_args, disk, out, dest, val, pp_args, interrupted>>

\* prepare_page is called in FULL mode (line 1472): it returns from the read
\* loop or right after it, the change tracker and the DELTA filter not reached
NextCheck ==
    \/ CheckDataBegin /\ UNCHANGED <<vpVars, chVars>>
    \/ CheckDataLoop /\ UNCHANGED <<vpVars, chVars>>
    \/ PrepareEnter /\ UNCHANGED <<vpVars, bkVars, chVars>>
    \/ PrepareRead(CheckReads) /\ UNCHANGED <<vpVars, bkVars, chVars>>
    \/ PrepareLoopEnd /\ UNCHANGED <<vpVars, bkVars, chVars>>
    \/ CheckDataPageDone /\ UNCHANGED <<vpVars, chVars>>

SpecCheck == InitCheck /\ [][NextCheck]_vars

(***************************************************************************)
(* Properties of validate_one_page (checked under SpecPage)                *)
(***************************************************************************)
\* the header invariants as the page format states them
HeaderInvariants(p) ==
    /\ (p.pd_pagesize_version \div 256) * 256 = BLCKSZ
    /\ p.pd_flags < PD_VALID_FLAG_BITS + 1
    /\ SizeOfPageHeaderData <= p.pd_lower /\ p.pd_lower <= p.pd_upper
    /\ p.pd_upper <= p.pd_special /\ p.pd_special <= BLCKSZ
    /\ p.pd_special % MAXIMUM_ALIGNOF = 0
ChecksumFails(p, blkno, cv) == cv # 0 /\ pg_checksum_page(p, blkno) # p.pd_checksum
FromFuture(p, stop) == stop > 0 /\ PageXLogRecPtrGet(p) > stop

\* C10: validate_one_page classifies a page by the first rule it fails, the rules
\* being tried in the order null page, header invariants (ZEROED if every byte is
\* zero, HEADER_INVALID if not), checksum, lsn from the future; a page failing none
\* is VALID.
C10_RuleOrder ==
    pc = "validated" =>
        /\ (page = NULL) <=> (rc = "PAGE_IS_NOT_FOUND")
        /\ page # NULL =>
            /\ (~HeaderInvariants(page) /\ AllBytesZero(page)) <=> (rc = "PAGE_IS_ZEROED")
            /\ (~HeaderInvariants(page) /\ ~AllBytesZero(page))
                   <=> (rc = "PAGE_HEADER_IS_INVALID")
            /\ (HeaderInvariants(page) /\ ChecksumFails(page, absolute_blkno, checksum_version))
                   <=> (rc = "PAGE_CHECKSUM_MISMATCH")
            /\ (/\ HeaderInvariants(page)
                /\ ~ChecksumFails(page, absolute_blkno, checksum_version)
                /\ FromFuture(page, stop_lsn)) <=> (rc = "PAGE_LSN_FROM_FUTURE")
            /\ (/\ HeaderInvariants(page)
                /\ ~ChecksumFails(page, absolute_blkno, checksum_version)
                /\ ~FromFuture(page, stop_lsn)) <=> (rc = "PAGE_IS_VALID")

\* a page with a sane header that fails both the checksum rule and the lsn rule
\* has been classified
C10_Witness ==
    /\ pc = "validated" /\ page # NULL
    /\ HeaderInvariants(page)
    /\ ChecksumFails(page, absolute_blkno, checksum_version)
    /\ FromFuture(page, stop_lsn)
    /\ rc = "PAGE_CHECKSUM_MISMATCH"

(***************************************************************************)
(* Properties of prepare_page (checked under SpecPrepare)                  *)
(***************************************************************************)
PrepareDone == pc = "pp_done"
BufferClass ==
    validate_one_page(pp.page, absolute_blknum(pp_args), InvalidXLogRecPtr,
                      pp_args.checksum_version, 0).rc
\* the call read the file, every read but the last returned a full page that
\* failed validation, and the last returned a valid page
TornThenValid ==
    /\ PrepareDone /\ reads_file(pp_args)
    /\ pp.nreads >= 1 /\ pp.nreads - 1 < PAGE_READ_ATTEMPTS
    /\ pp.torn_only /\ pp.rc = "PAGE_IS_VALID"
\* the DELTA filter applies to the page in the buffer
DeltaFiltered ==
    /\ pp_args.strict
    /\ pp_args.backup_mode = "DELTA" /\ pp_args.exists_in_prev
    /\ pp.page_lsn # 0 /\ pp.page_lsn < pp_args.prev_backup_start_lsn

\* C6 as stated: k < 100 torn reads followed by a valid page make prepare_page
\* return OK with the valid page in the buffer.
C6_TornThenValidIsOk ==
    TornThenValid =>
        pp.ret = "return" /\ pp.state = PageIsOk /\ BufferClass = "PAGE_IS_VALID"

\* C6 amended: k < 100 torn reads followed by a valid page make prepare_page
\* return with the valid page in the buffer; the value returned is OK, except in
\* a strict call in DELTA mode for a file of the parent backup and a page with a
\* non-zero lsn below prev_backup_start_lsn, where it is SKIP.  And the call never gives up on torn
\* pages before PAGE_READ_ATTEMPTS reads.
C6_TornThenValidReturns ==
    /\ TornThenValid =>
        /\ pp.ret = "return" /\ BufferClass = "PAGE_IS_VALID"
        /\ pp.state = IF DeltaFiltered THEN SkipCurrentPage ELSE PageIsOk
    /\ (PrepareDone /\ pp.errormsg \in {"header", "checksum"} /\ ~pp.tracker_called)
           => pp.nreads = PAGE_READ_ATTEMPTS

\* 99 torn reads, then the 100th read returns a valid page
C6_Witness ==
    /\ TornThenValid /\ pp.nreads = PAGE_READ_ATTEMPTS
    /\ pp.ret = "return" /\ pp.state = PageIsOk

\* C7: a page whose bytes are all zero, once delivered by a read of the file or by
\* the change tracker, makes prepare_page return OK in every mode, strict or not.
C7_ZeroedIsOk ==
    (PrepareDone /\ (pp.nreads > 0 \/ pp.tracker_called) /\ pp.page # NULL
       /\ AllBytesZero(pp.page))
        => pp.ret = "return" /\ pp.state = PageIsOk

\* a zeroed page read in DELTA mode after a torn read
C7_Witness ==
    /\ PrepareDone /\ pp_args.backup_mode = "DELTA" /\ pp_args.strict
    /\ pp.nreads = 2 /\ AllBytesZero(pp.page)
    /\ pp.ret = "return" /\ pp.state = PageIsOk

\* every one of the PAGE_READ_ATTEMPTS reads ended without a page the loop accepts
Exhausted == PrepareDone /\ pp.try_again < 0

\* C8: after exhaustion prepare_page in strict mode raises an error and returns
\* nothing; in non-strict mode it warns and returns CORRUPTED.
C8_Exhaustion ==
    Exhausted =>
        /\ pp.nreads = PAGE_READ_ATTEMPTS
        /\ pp_args.strict => pp.ret = "error" /\ pp.elevel = "ERROR"
        /\ ~pp_args.strict =>
             pp.ret = "return" /\ pp.state = PageIsCorrupted /\ pp.elevel = "WARNING"

\* exhaustion in non-strict mode on pages with a bad checksum
C8_Witness ==
    /\ Exhausted /\ ~pp_args.strict /\ pp.rc = "PAGE_CHECKSUM_MISMATCH"
    /\ pp.state = PageIsCorrupted

(***************************************************************************)
(* Properties of backup_data_file and of the readers of its stream         *)
(* (checked under SpecBackup)                                              *)
(***************************************************************************)
BackupReturned == pc \in {"bk_done", "restored", "checked"} /\ bk.ret = "return"
Restored == pc \in {"restored", "checked"}
Mode == bk_args.backup_mode
\* every block of the source file passes validation
AllValid ==
    \A i \in 1..Len(disk.pages) :
        validate_one_page(disk.pages[i], i - 1, InvalidXLogRecPtr,
                          bk_args.checksum_version, 0).rc = "PAGE_IS_VALID"
\* the source file is there and has the size the run was told
StaticFile == disk.exists /\ file.size = Len(disk.pages) * BLCKSZ
\* the run takes no page from the shared buffers
PagesFromFile == ~(Mode = "PTRACK" /\ bk_args.ptrack_version_num < 20)
\* the two cases of the pagemap the round trip is stated for
PagemapAbsent == Mode \in {"FULL", "DELTA"} \/ ~file.exists_in_prev \/ file.pagemap_isabsent
PagemapSelectsAll ==
    /\ file.pagemap.bitmapsize # PageBitmapIsEmpty
    /\ \A b \in 0..(Len(disk.pages) - 1) : b \in file.pagemap.bits
\* DELTA mode leaves out a block of the file: its lsn is not zero and is below
\* the parent's start
DeltaLeavesOut ==
    /\ Mode = "DELTA" /\ file.exists_in_prev
    /\ \E i \in 1..Len(disk.pages) :
         /\ PageXLogRecPtrGet(disk.pages[i]) # 0
         /\ PageXLogRecPtrGet(disk.pages[i]) < bk_args.prev_backup_start_lsn
RoundTripCase ==
    /\ Restored /\ StaticFile /\ PagesFromFile /\ AllValid
    /\ PagemapAbsent \/ PagemapSelectsAll

\* C1 as stated (read with a source file that does not change during the run and
\* pages that come from the file): backup_data_file, then restore_data_file over
\* the chain of that one backup, write exactly the blocks of the source file.
C1_RoundTrip ==
    RoundTripCase => dest.ret = "return" /\ dest.dest = disk.pages

\* C1 amended: the round trip gives back the blocks of the source file, with the
\* pagemap absent or selecting every block, compressed or not, unless the mode is
\* DELTA, the file existed in the parent backup and a page has a non-zero lsn
\* below prev_backup_start_lsn; then the destination differs from the source.
C1_RoundTripUnlessDeltaFilter ==
    RoundTripCase =>
        /\ dest.ret = "return"
        /\ (dest.dest = disk.pages) <=> ~DeltaLeavesOut

\* two blocks selected by the pagemap, one stored compressed and one stored raw,
\* came back as they were
C1_Witness ==
    /\ RoundTripCase /\ bk.use_pagemap /\ Len(disk.pages) = 2
    /\ Len(out.frames) = 2
    /\ out.frames[1].compressed_size < BLCKSZ
    /\ out.frames[2].compressed_size = BLCKSZ
    /\ dest.dest = disk.pages

\* C3: in the stream the local-mode loop writes, block numbers of successive
\* frames are strictly increasing, with and without the pagemap iterator.
C3_FrameMonotonicity ==
    pc \in {"bk_loop", "pp_enter", "pp_loop", "pp_tail", "pp_done", "bk_finish",
            "bk_done", "bk_error", "restored", "checked"} =>
        \A i \in 1..(Len(out.frames) - 1) :
            out.frames[i].block < out.frames[i + 1].block

\* two frames written under the pagemap iterator
C3_Witness ==
    /\ pc = "bk_finish" /\ bk.use_pagemap
    /\ Len(out.frames) = 2 /\ out.frames[1].block < out.frames[2].block

\* C4: over a stream file that backup_data_file produced, check_file_pages reaches
\* the end of the file having fed its checksum the bytes the writer fed (each
\* header, then the payload up to the alignment), and its final checksum is the
\* file.crc the writer recorded.
C4_ChecksumFidelity ==
    (pc = "checked" /\ out.exists) =>
        /\ val.at_eof
        /\ val.crc.data = file.crc.data
        /\ val.crc = file.crc

\* a stream with a padded compressed frame was validated
C4_Witness ==
    /\ pc = "checked" /\ out.exists /\ Len(out.frames) = 2
    /\ \E i \in 1..2 : MAXALIGN(out.frames[i].compressed_size) # out.frames[i].compressed_size
    /\ val.crc = file.crc /\ val.ret = "true"

\* the pre-check of an unchanged file: empty pagemap that is not absent, file of
\* the parent backup
EmptyPagemapCase ==
    /\ BackupReturned /\ disk.exists
    /\ file.pagemap.bitmapsize = PageBitmapIsEmpty /\ ~file.pagemap_isabsent
    /\ file.exists_in_prev
NoOutput == ~out.exists /\ file.write_size = BYTES_INVALID

\* C5 as stated: in every incremental mode the run ends with no output file and
\* write_size = BYTES_INVALID.
C5_UnchangedAnyIncremental ==
    (EmptyPagemapCase /\ Mode \in {"DELTA", "PAGE", "PTRACK"}) => NoOutput

\* C5 amended: in PAGE and PTRACK mode the run ends with no output file and
\* write_size = BYTES_INVALID, without reading the source; in DELTA mode it reads
\* the file, and ends that way exactly when it read at least one block and
\* skipped every block it read.
C5_UnchangedPageOrPtrack ==
    /\ (EmptyPagemapCase /\ Mode \in {"PAGE", "PTRACK"}) =>
           NoOutput /\ file.read_size = 0
    /\ (EmptyPagemapCase /\ Mode = "DELTA") =>
           (NoOutput <=> (file.n_blocks > 0 /\ bk.n_blocks_skipped = file.n_blocks))

\* a PTRACK run over a file of two blocks ended without output
C5_Witness ==
    /\ EmptyPagemapCase /\ Mode = "PTRACK" /\ Len(disk.pages) = 2
    /\ file.n_blocks = 2 /\ NoOutput

\* prepare_page has found a valid page in DELTA mode for a file of the parent
DeltaValidPage ==
    /\ pc = "pp_done" /\ pp_args.backup_mode = "DELTA" /\ pp_args.exists_in_prev
    /\ pp.page_is_valid /\ pp.rc = "PAGE_IS_VALID"
\* the page a frame carries
FramePage(h) == IF h.data.z # NULL THEN h.data.z ELSE h.data.view
\* a frame of the stream carries a valid page with an lsn in lsns
FrameWithLsn(lsns) ==
    \E i \in 1..Len(out.frames) :
        /\ PageXLogRecPtrGet(FramePage(out.frames[i])) \in lsns
        /\ HeaderSane(FramePage(out.frames[i]))

\* C9 as stated: every valid page with an lsn below prev_backup_start_lsn, whatever
\* the lsn, makes prepare_page return SKIP, and no frame is written for it.
C9_DeltaSkipAnyLsn ==
    /\ (DeltaValidPage /\ pp.page_lsn < pp_args.prev_backup_start_lsn) =>
           pp.ret = "return" /\ pp.state = SkipCurrentPage
    /\ (pc \in {"bk_loop", "bk_finish", "bk_done"} /\ Mode = "DELTA" /\ file.exists_in_prev)
           => ~FrameWithLsn(0..(bk_args.prev_backup_start_lsn - 1))

\* C9 amended: a valid page with a non-zero lsn below prev_backup_start_lsn makes
\* prepare_page return SKIP, and no frame is written for it; a valid page whose
\* lsn is zero, or not below prev_backup_start_lsn, is returned OK.
C9_DeltaSkipNonZeroLsn ==
    /\ DeltaValidPage =>
           /\ pp.ret = "return"
           /\ pp.state = IF pp.page_lsn # 0 /\ pp.page_lsn < pp_args.prev_backup_start_lsn
                         THEN SkipCurrentPage ELSE PageIsOk
    /\ (pc \in {"bk_loop", "bk_finish", "bk_done"} /\ Mode = "DELTA" /\ file.exists_in_prev)
           => ~FrameWithLsn(1..(bk_args.prev_backup_start_lsn - 1))

\* the run skipped block 1 after writing a frame for block 0
C9_Witness ==
    /\ pc = "bk_done" /\ Mode = "DELTA" /\ file.exists_in_prev
    /\ Len(disk.pages) = 2 /\ file.n_blocks = 2
    /\ PageXLogRecPtrGet(disk.pages[2]) = bk_args.prev_backup_start_lsn - 1
    /\ bk.n_blocks_skipped = 1
    /\ Len(out.frames) = 1 /\ out.frames[1].block = 0

\* C11: after every clean return of backup_data_file the output file exists
\* exactly when write_size > 0; a run that ends with write_size 0, BYTES_INVALID
\* or FILE_NOT_FOUND leaves no output file.
C11_OutputIffWritten ==
    BackupReturned =>
        /\ out.exists <=> file.write_size > 0
        /\ file.write_size \in {0, BYTES_INVALID, FILE_NOT_FOUND} => ~out.exists

\* a FULL run that read a block and wrote nothing (the block was found truncated
\* away) returned without its output file
C11_Witness ==
    /\ pc = "bk_done" /\ bk.ret = "return" /\ disk.exists
    /\ file.size > 0 /\ file.write_size = 0 /\ ~out.exists

\* the run returned, the source file was there and no frame went to the stream
NothingWritten == BackupReturned /\ disk.exists /\ file.uncompressed_size = 0

\* C12 as stated: a clean run over a present source file that wrote no byte ends
\* with write_size = BYTES_INVALID, in every mode, file of the parent or not.
C12_NothingWrittenIsInvalid ==
    NothingWritten => file.write_size = BYTES_INVALID

\* C12 amended: such a run ends with write_size = BYTES_INVALID exactly when the
\* mode is incremental, the file exists in the parent backup and either the
\* pre-check found it unchanged or n_blocks > 0; otherwise with write_size = 0.
C12_NothingWrittenIncremental ==
    NothingWritten =>
        /\ file.write_size \in {BYTES_INVALID, 0}
        /\ file.write_size = BYTES_INVALID <=>
               /\ Mode # "FULL" /\ file.exists_in_prev
               /\ file_unchanged(file, Mode) \/ file.n_blocks > 0

\* a DELTA run read two blocks, skipped both and ended with BYTES_INVALID
C12_Witness ==
    /\ NothingWritten /\ pc = "bk_done" /\ Mode = "DELTA"
    /\ file.read_size = 2 * BLCKSZ /\ bk.n_blocks_skipped = 2
    /\ file.write_size = BYTES_INVALID

\* the run tried to open the source file and could not
OpenFailed ==
    /\ pc \in {"bk_done", "bk_error", "restored", "checked"}
    /\ ~file_unchanged(file, Mode) /\ disk.errno # "none"

\* C13: when the source cannot be opened because it does not exist, the run with
\* missing_ok sets write_size = FILE_NOT_FOUND and returns without creating the
\* output file, and without missing_ok it fails; any other failure to open it is
\* an error whatever missing_ok is.
C13_MissingSource ==
    OpenFailed =>
        /\ (disk.errno = "ENOENT" /\ bk_args.missing_ok) =>
               /\ bk.ret = "return" /\ pc # "bk_error"
               /\ file.write_size = FILE_NOT_FOUND /\ ~out.exists
        /\ (disk.errno = "ENOENT" /\ ~bk_args.missing_ok) =>
               bk.ret = "error" /\ pc = "bk_error"
        /\ disk.errno # "ENOENT" => bk.ret = "error" /\ pc = "bk_error"

\* a PTRACK run found the file gone and returned FILE_NOT_FOUND
C13_Witness ==
    /\ OpenFailed /\ pc = "bk_done" /\ Mode = "PTRACK" /\ disk.errno = "ENOENT"
    /\ bk_args.missing_ok /\ file.write_size = FILE_NOT_FOUND

(***************************************************************************)
(* Properties of restore_data_file (checked under SpecChain)               *)
(***************************************************************************)
ChainRestored == pc = "rs_done" /\ dest.ret = "return"
\* the k-th member of the chain has a stream that restore_data_file opens
MemberUsed(k) ==
    /\ parent_chain[k].file # NULL
    /\ parent_chain[k].file.write_size # BYTES_INVALID
    /\ parent_chain[k].file.write_size # 0
\* the members whose stream has a page frame for block b
MembersWith(b) ==
    { k \in 1..Len(parent_chain) :
        MemberUsed(k) /\ b \in StreamBlocks(parent_chain[k].stream) }
\* the newest of them: parent_chain[1] is the newest backup
NewestWith(b) == CHOOSE k \in MembersWith(b) : \A j \in MembersWith(b) : k <= j
\* the page that member k holds for block b
MemberPage(k, b) ==
    LET fr == parent_chain[k].stream.frames
        i == CHOOSE j \in 1..Len(fr) :
                 fr[j].block = b /\ fr[j].compressed_size # PageIsTruncated
    IN  FramePage(fr[i])
DestHolds(b, p) == b < Len(dest.dest) /\ dest.dest[b + 1] = p
\* member k or a newer one carries a truncation marker at or below block b
CutAt(k, b) ==
    \E j \in 1..k : MemberUsed(j) /\
        \E i \in 1..Len(parent_chain[j].stream.frames) :
            /\ parent_chain[j].stream.frames[i].compressed_size = PageIsTruncated
            /\ parent_chain[j].stream.frames[i].block <= b
NoMarkers ==
    \A k \in 1..Len(parent_chain) :
        \A i \in 1..Len(parent_chain[k].stream.frames) :
            parent_chain[k].stream.frames[i].compressed_size # PageIsTruncated

\* C2 as stated: after the replay, for every block the destination holds the page
\* of the newest backup of the chain whose stream has a frame for that block.
C2_NewestFrameWins ==
    ChainRestored =>
        \A b \in 0..MaxBlocks :
            MembersWith(b) # {} => DestHolds(b, MemberPage(NewestWith(b), b))

\* C2 amended: the destination holds, for every block below dest_file.n_blocks
\* (every block when n_blocks is 0) that no truncation marker of the same or a
\* newer backup cuts off, the page of the newest backup whose stream has a frame
\* for it; frames of blocks at or past a non-zero n_blocks are not written, so
\* without truncation markers the destination has at most n_blocks blocks.
C2_NewestFrameWinsBelowNBlocks ==
    ChainRestored =>
        /\ \A b \in 0..MaxBlocks :
             (/\ MembersWith(b) # {}
              /\ dest_file.n_blocks = 0 \/ b < dest_file.n_blocks
              /\ ~CutAt(NewestWith(b), b))
                 => DestHolds(b, MemberPage(NewestWith(b), b))
        /\ (NoMarkers /\ dest_file.n_blocks > 0) => Len(dest.dest) <= dest_file.n_blocks

\* block 0 is in both backups of the chain and the destination holds the newer
\* page; block 1 is in the older backup only and came from there
C2_Witness ==
    /\ ChainRestored /\ Len(parent_chain) = 2
    /\ MembersWith(0) = {1, 2} /\ MembersWith(1) = {2}
    /\ DestHolds(0, MemberPage(1, 0)) /\ DestHolds(1, MemberPage(2, 1))
    /\ MemberPage(1, 0) # MemberPage(2, 0)

(***************************************************************************)
(* Properties of restore_data_file_internal and check_file_pages over one  *)
(* stream (checked under SpecStream)                                       *)
(***************************************************************************)
\* the loop of restore_data_file_internal has ended
RestoreEnded == pc \in {"ri_done", "cf_loop", "cf_done"}
\* the loop of check_file_pages has ended
CheckEnded == pc = "cf_done"
IsMarker(h) == header_read(h) /\ h.compressed_size = PageIsTruncated
\* the frame is skipped as an empty block
IsEmpty(h) == header_read(h) /\ h.block = 0 /\ h.compressed_size = 0

\* C14 as stated: when restore_data_file_internal reads a frame header with
\* compressed_size = -1 and block = b, it truncates the destination to exactly b
\* blocks (b * BLCKSZ bytes) and processes no further frame of the stream.
C14_MarkerTruncates ==
    RestoreEnded =>
        \A k \in 1..dest.i :
            IsMarker(out.frames[k]) =>
                /\ dest.i = k /\ dest.ret = "return"
                /\ Len(dest.dest) = out.frames[k].block

\* a pass of the loop of restore_data_file_internal that writes a page
WritesPage == pc = "ri_loop" /\ dest'.write_len > dest.write_len

\* C15: with a known, positive n_blocks of the destination file, restore never
\* writes a page for a block >= n_blocks: the stream stops being read at its
\* first frame with such a block, and every pass of the loop that writes a page
\* writes it for a block below n_blocks.
C15_NoPagePastNBlocks ==
    /\ [](\/ ~(pc \in {"ri_loop", "ri_done", "cf_loop", "cf_done"} /\ file.n_blocks > 0)
          \/ \A k \in 1..dest.i :
                (header_read(out.frames[k]) /\ out.frames[k].block >= file.n_blocks) =>
                    k = dest.i /\ pc # "ri_loop")
    /\ [][(WritesPage /\ file.n_blocks > 0) =>
            /\ out.frames[dest.i + 1].block < file.n_blocks
            /\ Len(dest'.dest) <= file.n_blocks]_vars

\* the frame of block 0 was written, the frame of block 1 = n_blocks ended the
\* loop
C15_Witness ==
    /\ pc = "ri_done" /\ file.n_blocks = 1 /\ Len(out.frames) = 2
    /\ dest.i = 2 /\ dest.ret = "return" /\ dest.write_len = BLCKSZ
    /\ out.frames[2].block = 1 /\ out.frames[2].compressed_size = BLCKSZ
    /\ Len(dest.dest) = 1

\* among the first n frames of the stream, one that is not skipped as empty has
\* a block number below that of a frame before it
OutOfOrder(n) ==
    \E j \in 1..n : \E k \in (j + 1)..n :
        /\ header_read(out.frames[j]) /\ header_read(out.frames[k])
        /\ ~IsEmpty(out.frames[j]) /\ ~IsEmpty(out.frames[k])
        /\ out.frames[k].block < out.frames[j].block

\* C16 as stated: if check_file_pages reads a frame whose block number is lower
\* than the block number of a frame read earlier in the stream, it terminates
\* early and returns false.
C16_RejectsOutOfOrder ==
    (CheckEnded /\ OutOfOrder(val.i)) => val.ret = "false" /\ ~val.at_eof

\* C17 as stated, for a destination whose n_blocks is not known (so that restore
\* does not stop for a block past it): check_file_pages consumes the same frames
\* of the stream as restore_data_file_internal and stops at the same frame, and
\* does not pass a stream on which restore fails.
C17_SameFraming ==
    (CheckEnded /\ file.n_blocks = 0) =>
        /\ val.i = dest.i
        /\ dest.ret = "error" => val.ret # "true"

\* the frame carries a payload that the loops go on to classify
HasPayload(h) ==
    /\ header_read(h) /\ ~IsEmpty(h) /\ ~IsMarker(h)
    /\ h.compressed_size > 0 /\ h.compressed_size <= BLCKSZ /\ payload_read(h)
\* the frame is taken for compressed
TakenForCompressed(h) ==
    \/ h.compressed_size # BLCKSZ
    \/ page_may_be_compressed(h.data, file.compress_alg, bk_args.backup_version)
\* the page check_file_pages reconstructs from the frame, NULL when there is none
Reconstructed(h) ==
    IF ~HasPayload(h) THEN NULL
    ELSE IF TakenForCompressed(h)
    THEN LET d == do_decompress(h.data, file.compress_alg)
         IN  IF d.size = BLCKSZ THEN d.page ELSE NULL
    ELSE h.data.view
\* what validate_one_page says of the reconstructed page
PageClass(h) ==
    validate_one_page(Reconstructed(h), file.segno * RELSEG_SIZE + h.block,
                      bk_args.stop_lsn, bk_args.checksum_version, 0).rc
BadPage(h) ==
    /\ Reconstructed(h) # NULL
    /\ PageClass(h) \in {"PAGE_HEADER_IS_INVALID", "PAGE_CHECKSUM_MISMATCH"}
\* a frame of compressed_size = BLCKSZ taken for compressed that does not
\* decompress to a page
NotDecompressed(h) ==
    /\ HasPayload(h) /\ h.compressed_size = BLCKSZ
    /\ TakenForCompressed(h) /\ Reconstructed(h) = NULL
\* check_file_pages returned true or false
CheckReturned == CheckEnded /\ val.ret \in {"true", "false"}
CrcMatches == FileCrc(out.frames, use_crc32c(bk_args.backup_version)) = file.crc

\* C18 as stated: check_file_pages returns true exactly when it reached the end
\* of the stream at a frame boundary, no reconstructed page was classified
\* HEADER_INVALID or CHECKSUM_MISMATCH and the checksum of the file equals
\* file.crc; after an invalid page the remaining frames are still read.
C18_TrueIffCleanAndCrc ==
    CheckReturned =>
        /\ val.ret = "true" <=>
              /\ val.at_eof /\ CrcMatches
              /\ \A k \in 1..Len(out.frames) : ~BadPage(out.frames[k])
        /\ (~val.at_eof /\ val.i >= 1) => ~BadPage(out.frames[val.i])

\* C18 amended: as stated, with one more way for the file to be invalid: a
\* frame of compressed_size = BLCKSZ that the heuristic for versions before
\* 2.0.23 takes for compressed and that does not decompress to BLCKSZ bytes
\* (no page is reconstructed from it, and the frames after it are still read).
C18_TrueIffCleanDecompressedAndCrc ==
    CheckReturned =>
        /\ val.ret = "true" <=>
              /\ val.at_eof /\ CrcMatches
              /\ \A k \in 1..Len(out.frames) :
                    ~BadPage(out.frames[k]) /\ ~NotDecompressed(out.frames[k])
        /\ (~val.at_eof /\ val.i >= 1) =>
              ~BadPage(out.frames[val.i]) /\ ~NotDecompressed(out.frames[val.i])

\* a page with a wrong checksum, then a zeroed page: both frames were read, the
\* checksum of the file is right and the file is invalid
C18_Witness ==
    /\ CheckReturned /\ Len(out.frames) = 2 /\ val.i = 2 /\ val.at_eof
    /\ PageClass(out.frames[1]) = "PAGE_CHECKSUM_MISMATCH"
    /\ PageClass(out.frames[2]) = "PAGE_IS_ZEROED"
    /\ CrcMatches /\ val.ret = "false"

\* the page of the frame when compressed_size alone tells whether the payload
\* is compressed; NULL when the payload does not decompress to a page
PageBySize(h) ==
    IF h.compressed_size # BLCKSZ
    THEN LET d == do_decompress(h.data, file.compress_alg)
         IN  IF d.size = BLCKSZ THEN d.page ELSE NULL
    ELSE h.data.view
\* the frame gets as far as the test of lines 1037-1039 in the restore loop
ReachesWrite(h) ==
    /\ HasPayload(h) /\ h.block >= dest.blknum
    /\ ~(file.n_blocks > 0 /\ h.block >= file.n_blocks)

\* C19: for streams of version 2.0.23 or later the restore loop and the
\* validation loop take a frame for compressed exactly when its compressed_size
\* differs from BLCKSZ, whatever the payload and the algorithm: restore writes
\* the decompressed payload of such a frame and the payload as it is otherwise,
\* and the validator classifies that same page.
C19_CompressedIffSizeDiffers ==
    [][bk_args.backup_version >= 20023 =>
        /\ (pc = "ri_loop" /\ ~interrupted /\ dest.i < Len(out.frames)) =>
              LET h == out.frames[dest.i + 1]
                  p == PageBySize(h)
              IN  ReachesWrite(h) =>
                    IF p = NULL
                    THEN dest'.ret = "error" /\ dest'.dest = dest.dest
                    ELSE /\ dest'.ret = "none"
                         /\ dest'.dest = WritePage(dest.dest, block_offset(h.block), p)
        /\ (pc = "cf_loop" /\ ~interrupted /\ val.i < Len(out.frames)) =>
              LET h == out.frames[val.i + 1]
                  p == PageBySize(h)
              IN  HasPayload(h) =>
                    IF p = NULL
                    THEN val'.ret = "false"
                    ELSE /\ val'.ret = "none"
                         /\ val'.is_valid =
                              (val.is_valid /\
                               validate_one_page(p, file.segno * RELSEG_SIZE + h.block,
                                                 bk_args.stop_lsn, bk_args.checksum_version,
                                                 0).rc
                                 \notin {"PAGE_HEADER_IS_INVALID", "PAGE_CHECKSUM_MISMATCH"})
      ]_vars

\* a frame of compressed_size = BLCKSZ that a stream of version 2.0.22 would
\* have had decompressed: under version 2.0.25 it was restored as it is and
\* validated as a page with an invalid header
C19_Witness ==
    /\ pc = "cf_done" /\ bk_args.backup_version >= 20023
    /\ Len(out.frames) = 1 /\ out.frames[1].compressed_size = BLCKSZ
    /\ HasPayload(out.frames[1])
    /\ page_may_be_compressed(out.frames[1].data, file.compress_alg, 20022)
    /\ dest.ret = "return" /\ dest.dest = <<out.frames[1].data.view>>
    /\ val.at_eof /\ val.ret = "false"
    /\ PageClass(out.frames[1]) = "PAGE_HEADER_IS_INVALID"

(***************************************************************************)
(* Properties of the cancellation flag (checked under SpecCancel)          *)
(***************************************************************************)
\* prepare_page has raised the error Interrupted
PrepareInterrupted == pp # <<>> /\ pp.ret = "error" /\ pp.errormsg = "Interrupted"
ReaderPcs == {"ri_loop", "ri_done", "cf_loop", "cf_done"}
\* the loops of the readers have raised the error
RestoreInterrupted == pc \in ReaderPcs \ {"ri_loop"} /\ dest.ret = "interrupted"
CheckInterrupted == pc = "cf_done" /\ val.ret = "interrupted"

\* what the run has done so far: frames emitted and blocks read by the backup,
\* frames consumed and pages written by restore, frames consumed by validation
FramesEmitted == IF pc \in BackupLoopPcs \cup {"bk_finish", "bk_done", "bk_error"}
                 THEN Len(out.frames) ELSE 0
BlocksRead == IF pc \in BackupLoopPcs \cup {"bk_finish", "bk_done", "bk_error"}
              THEN file.read_size \div BLCKSZ ELSE 0
FramesRestored == IF pc \in ReaderPcs THEN dest.i ELSE 0
PagesWritten == IF pc \in ReaderPcs THEN dest.write_len \div BLCKSZ ELSE 0
FramesChecked == IF pc \in {"cf_loop", "cf_done"} /\ val # <<>> THEN val.i ELSE 0

\* once the flag is set, the run writes and checks at most the block in
\* progress: the backup emits at most one more frame and reads at most one more
\* block, the readers consume no further frame and write no further page
AtMostBlockInProgress ==
    /\ \A n \in 0..MaxBlocks :
          [](interrupted /\ pc \in BackupLoopPcs /\ FramesEmitted = n
               => [](FramesEmitted <= n + 1))
    /\ \A n \in 0..MaxBlocks :
          [](interrupted /\ pc \in BackupLoopPcs /\ BlocksRead = n
               => [](BlocksRead <= n + 1))
    /\ [][interrupted =>
            /\ FramesRestored' = FramesRestored /\ PagesWritten' = PagesWritten
            /\ FramesChecked' = FramesChecked
            /\ pc \in ReaderPcs => dest'.dest = dest.dest]_vars

\* prepare_page is past its test of the flag: a block is in progress
BlockInProgress == pc \in {"pp_loop", "pp_tail"}

\* C20 as stated: once the flag is set, the backup loop, the restore loop and
\* the validation loop each abort with a fatal error at their next block
\* boundary, and at most the block in progress is written or checked.
C20_EachLoopAborts ==
    /\ (interrupted /\ BlockInProgress) ~> (pc = "bk_error")
    /\ (interrupted /\ pc = "ri_loop") ~> RestoreInterrupted
    /\ (interrupted /\ pc = "cf_loop") ~> CheckInterrupted
    /\ AtMostBlockInProgress

\* C20 amended: once the flag is set, the restore loop and the validation loop
\* abort with a fatal error at their next pass, before they read a frame, and
\* the backup loop aborts with a fatal error at its next call of prepare_page;
\* when the block in progress is the last one the backup loop ends as it would
\* have without the flag.  At most the block in progress is written or
\* checked, and no later block is read, emitted or written.
C20_AbortsAtNextBlockStarted ==
    /\ (interrupted /\ pc \in BackupLoopPcs) ~> (pc \in {"bk_error", "bk_done"})
    /\ [][interrupted =>
            /\ pc = "pp_enter" => PrepareInterrupted' /\ pc' = "pp_done"
            /\ (pc = "pp_done" /\ PrepareInterrupted) =>
                  pc' = "bk_error" /\ out' = out /\ file' = file
            /\ (pc = "bk_loop" /\ bk.blknum >= bk.nblocks) => pc' = "bk_finish"]_vars
    /\ (interrupted /\ pc = "ri_loop") ~> RestoreInterrupted
    /\ (interrupted /\ pc = "cf_loop") ~> CheckInterrupted
    /\ AtMostBlockInProgress

\* the flag was set while the first of two blocks was being read: its frame was
\* emitted, and the call of prepare_page for the second block raised the error
C20_Witness ==
    /\ interrupted /\ pc = "bk_error" /\ bk.nblocks = 2
    /\ bk.blknum = 1 /\ Len(out.frames) = 1 /\ file.read_size = BLCKSZ

(***************************************************************************)
(* Properties of the file handles (checked under SpecStream)               *)
(***************************************************************************)
\* C21: when check_file_pages returns to its caller, with true or with false,
\* the handle it opened on the stream file has been closed.
C21_HandleClosedOnReturn ==
    CheckReturned => val.in # "open"

(***************************************************************************)
(* Properties of check_data_file (checked under SpecCheck)                 *)
(***************************************************************************)
\* check_data_file has returned
CheckDataReturned == pc = "cd_done"
\* the blocks the file holds among those its recorded size announces
BlocksOnDisk ==
    IF Len(disk.pages) < file.size \div BLCKSZ THEN Len(disk.pages)
    ELSE file.size \div BLCKSZ
\* block b of the file fails the header check or the checksum
CorruptedOnDisk(b) ==
    validate_one_page(disk.pages[b + 1], file.segno * RELSEG_SIZE + b, InvalidXLogRecPtr,
                      bk_args.checksum_version, 0).rc
      \in {"PAGE_HEADER_IS_INVALID", "PAGE_CHECKSUM_MISMATCH"}

\* C22: check_data_file examines every block up to the first truncated one,
\* corrupted blocks or not, and returns false exactly when the file could not
\* be opened for a reason other than its absence or an examined block is
\* corrupted; an absent file gives true.
C22_FalseIffUnreadableOrCorrupted ==
    CheckDataReturned =>
        /\ disk.errno = "ENOENT" => bk.ret = "true"
        /\ disk.errno = "none" => bk.blknum = BlocksOnDisk /\ bk.in = "closed"
        /\ bk.ret = "false" <=>
              \/ disk.errno \notin {"none", "ENOENT"}
              \/ disk.errno = "none" /\ \E b \in 0..(BlocksOnDisk - 1) : CorruptedOnDisk(b)

\* the first block is corrupted and the second is not: both were examined and
\* the file is reported invalid
C22_Witness ==
    /\ CheckDataReturned /\ disk.errno = "none" /\ BlocksOnDisk = 2
    /\ CorruptedOnDisk(0) /\ ~CorruptedOnDisk(1)
    /\ bk.blknum = 2 /\ bk.ret = "false"

(***************************************************************************)
(* Properties of the retry loop (checked under SpecPrepareFair)            *)
(***************************************************************************)
\* C23: for one block prepare_page issues at most PAGE_READ_ATTEMPTS reads,
\* each read, short or invalid, consuming one attempt, and the call always
\* ends, with a returned state or a fatal error, whatever the reads produce.
C23_BoundedRetry ==
    /\ [](pc \in {"pp_loop", "pp_tail", "pp_done"} => pp.nreads <= PAGE_READ_ATTEMPTS)
    /\ [][(pc = "pp_loop" /\ loop_continues(pp)) =>
            pp'.nreads = pp.nreads + 1 /\ pp'.try_again = pp.try_again - 1]_vars
    /\ <>(pc = "pp_done" /\ pp.ret \in {"return", "error"})

\* a call that ended after PAGE_READ_ATTEMPTS reads, some of them short
C23_Witness ==
    /\ pc = "pp_done" /\ pp.nreads = PAGE_READ_ATTEMPTS /\ ~pp.torn_only
    /\ pp.ret \in {"return", "error"}

(***************************************************************************)
(* Properties of the change tracker path (checked under SpecPrepare)       *)
(***************************************************************************)
\* C24 as stated: in PTRACK mode with a tracker of version 1.x, prepare_page
\* reads the block from the file first and calls the tracker only after a
\* read has succeeded.
C24_TrackerAfterRead ==
    (PrepareDone /\ pp.tracker_called) => pp.nreads >= 1

\* C24 amended: in PTRACK mode with a tracker of version 1.x, prepare_page
\* does not read the file: it fetches the page from the tracker at once.  The
\* tracker is called in that mode only, for every call that was not
\* interrupted, and never for a block that was read from the file.
C24_TrackerInsteadOfRead ==
    PrepareDone =>
        /\ pp.tracker_called <=> (uses_tracker(pp_args) /\ ~PrepareInterrupted)
        /\ uses_tracker(pp_args) => pp.nreads = 0
        /\ pp.tracker_called => pp.nreads = 0

\* a PTRACK 1.x call that returned the page of the tracker without a read
C24_Witness ==
    /\ PrepareDone /\ uses_tracker(pp_args) /\ pp.tracker_called
    /\ pp.nreads = 0 /\ pp.ret = "return" /\ pp.state = PageIsOk
    /\ BufferClass = "PAGE_IS_VALID"

(***************************************************************************)
(* Properties of the frames and the counters of backup_data_file (checked  *)
(* under SpecBackup)                                                       *)
(***************************************************************************)
\* the stream is being written: the loop runs or has just ended
Writing == pc \in BackupLoopPcs \cup {"bk_finish"}
\* the offset in the stream file of its k-th frame
RECURSIVE FrameOffset(_, _)
FrameOffset(frames, k) ==
    IF k <= 1 THEN 0
    ELSE FrameOffset(frames, k - 1) + write_buffer_size(frames[k - 1])
\* the page a frame was made from
SourcePage(h) == IF h.data.z # NULL THEN h.data.z ELSE h.data.view
\* the sum over the frames of 8 + MAXALIGN(compressed_size)
RECURSIVE AlignedBytes(_)
AlignedBytes(frames) ==
    IF frames = <<>> THEN 0
    ELSE BackupPageHeaderSize + MAXALIGN(frames[1].compressed_size)
         + AlignedBytes(Tail(frames))

\* C25: every frame emitted has 0 < compressed_size <= BLCKSZ, compressed_size
\* being BLCKSZ exactly when compression failed or gave a size outside
\* (0, BLCKSZ); a frame takes 8 + MAXALIGN(compressed_size) bytes, so every
\* frame starts at a multiple of MAXALIGN.
C25_FrameShape ==
    Writing =>
        /\ \A k \in 1..Len(out.frames) :
              LET h == out.frames[k]
                  c == do_compress(SourcePage(h), bk_args.calg).size
              IN  /\ 0 < h.compressed_size /\ h.compressed_size <= BLCKSZ
                  /\ h.compressed_size = BLCKSZ <=> ~(0 < c /\ c < BLCKSZ)
                  /\ h.compressed_size # BLCKSZ => h.compressed_size = c
                  /\ FrameOffset(out.frames, k) % MAXIMUM_ALIGNOF = 0
        /\ file.write_size = AlignedBytes(out.frames)

\* a frame whose compressed_size is no multiple of MAXALIGN, and a frame
\* after it
C25_Witness ==
    /\ Writing /\ Len(out.frames) = 2
    /\ out.frames[1].compressed_size % MAXIMUM_ALIGNOF # 0
    /\ FrameOffset(out.frames, 2) = BackupPageHeaderSize + MAXALIGN(out.frames[1].compressed_size)

\* the blocks the run is to take: the members of the pagemap when it is used,
\* every block otherwise, below the number of blocks computed up front
Selected(b) ==
    /\ b < bk.nblocks
    /\ use_pagemap(file) => b \in file.pagemap.bits
\* no block from b on is to be taken
NoneSelectedFrom(b) == \A x \in b..MaxBlocks : ~Selected(x)
\* b is the first block to be taken from a on
FirstSelectedFrom(a, b) == Selected(b) /\ b >= a /\ \A x \in a..(b - 1) : ~Selected(x)

\* C26: with a usable pagemap the blocks handed to prepare_page are exactly
\* its members below n_blocks, in ascending order, up to the first truncated
\* block, and no other block is read or emitted; without it they are the
\* blocks 0..n_blocks-1 in order, up to the first truncated block.
C26_BlockSelection ==
    /\ [][(pc = "bk_loop" /\ pc' = "pp_enter") => Selected(pp_args'.blknum)]_vars
    /\ [][(pc = "bk_begin" /\ pc' = "bk_loop") =>
            \/ FirstSelectedFrom(0, bk.blknum)'
            \/ NoneSelectedFrom(0)' /\ bk'.blknum >= bk'.nblocks]_vars
    /\ [][(pc = "pp_done" /\ pc' = "bk_loop") =>
            \/ FirstSelectedFrom(bk.blknum + 1, bk'.blknum)
            \/ NoneSelectedFrom(bk.blknum + 1) /\ bk'.blknum >= bk.nblocks]_vars
    /\ [][(pc = "pp_done" /\ pc' = "bk_finish" /\ pp.state # PageIsTruncated) =>
            NoneSelectedFrom(bk.blknum + 1)]_vars
    /\ [](Writing => \A k \in 1..Len(out.frames) : Selected(out.frames[k].block))

\* prepare_page has just reported the block as truncated
TruncatedReported == pc = "pp_done" /\ pp.ret = "return" /\ pp.state = PageIsTruncated

\* C27: when prepare_page reports block t as truncated, backup_data_file emits
\* no frame for t or a later block and does not count t in read_size; in FULL
\* and DELTA modes n_blocks ends as read_size / BLCKSZ, in PAGE and PTRACK
\* modes it stays size / BLCKSZ.
C27_TruncationEndsPass ==
    /\ [][TruncatedReported =>
            /\ pc' = "bk_finish" /\ out' = out /\ file' = file
            /\ \A k \in 1..Len(out.frames) : out.frames[k].block < bk.blknum]_vars
    /\ [][pc = "bk_finish" =>
            /\ pc' = "bk_done" /\ file'.read_size = file.read_size
            /\ out' = out \/ ~out'.exists
            /\ file'.n_blocks = IF Mode \in {"FULL", "DELTA"}
                                THEN file.read_size \div BLCKSZ
                                ELSE file.size \div BLCKSZ]_vars

\* a FULL backup of a file that lost its second block since its size was
\* taken: one frame, one block counted, n_blocks 1
C27_Witness ==
    /\ pc = "bk_done" /\ Mode = "FULL" /\ file.size = 2 * BLCKSZ
    /\ Len(disk.pages) = 1 /\ bk.blknum = 1
    /\ Len(out.frames) = 1 /\ file.read_size = BLCKSZ /\ file.n_blocks = 1

\* the frame the restore loop is about to read
NextFrame == out.frames[dest.i + 1]
\* a step of the restore loop that writes a page
RestoreWritesPage ==
    /\ pc = "ri_loop" /\ ~interrupted /\ dest.i < Len(out.frames)
    /\ dest'.write_len = dest.write_len + BLCKSZ
\* the tracked position is the position of the output file
TrackedIsReal == pc = "ri_loop" => dest.cur_pos = dest.pos
\* the stream holds the pages of blocks 0, 1, ..., k-1 and nothing else
SequentialStream ==
    \A j \in 1..Len(out.frames) :
        out.frames[j].block = j - 1 /\ HasPayload(out.frames[j])

\* C28: in restore_data_file_internal the tracked cur_pos equals the position
\* of the output file before every page write, the page of block b is written
\* at block offset b, a seek is issued only when cur_pos differs from b, and a
\* stream of the blocks 0, 1, ..., k-1 is replayed with the initial seek alone
C28_WritePositionTracking ==
    /\ [](pc \in ReaderPcs => TrackedIsReal)
    /\ [][RestoreWritesPage =>
            /\ dest'.pos = NextFrame.block + 1
            /\ (dest'.seeks # dest.seeks => dest.cur_pos # NextFrame.block)]_vars
    /\ [](pc \in ReaderPcs /\ SequentialStream => dest.seeks = 1)

\* the same, the block offset taken as the code computes it, in 32 bits
C28_TrackingModulo32Bits ==
    /\ [](pc \in ReaderPcs => TrackedIsReal)
    /\ [][RestoreWritesPage =>
            /\ dest'.pos = block_offset(NextFrame.block) + 1
            /\ (dest'.seeks # dest.seeks <=> dest.cur_pos # block_offset(NextFrame.block))]_vars
    /\ [](pc \in ReaderPcs /\ SequentialStream => dest.seeks = 1)

\* a second page was written without a seek
C28_Witness ==
    /\ pc = "ri_done" /\ dest.ret = "return"
    /\ dest.write_len = 2 * BLCKSZ /\ dest.seeks = 1 /\ dest.pos = 2

\* C29: in a local pass of backup_data_file that met no error, read_size is
\* BLCKSZ times the number of blocks prepare_page answered with PageIsOk or
\* SkipCurrentPage, uncompressed_size is BLCKSZ times the number of frames
\* emitted, and write_size, until the end of the loop, is the sum over the
\* frames of 8 + MAXALIGN(compressed_size): one block stored as it is gives
\* read_size 8192 and write_size 8200, and a DELTA pass that skips one of two
\* blocks gives read_size 16384 with one frame.
C29_SizeCounters ==
    Writing =>
        /\ file.read_size = BLCKSZ * (Len(out.frames) + bk.n_blocks_skipped)
        /\ file.uncompressed_size = BLCKSZ * Len(out.frames)
        /\ file.write_size = AlignedBytes(out.frames)
        /\ (/\ pc = "bk_finish" /\ bk.n_blocks_skipped = 0 /\ Len(out.frames) = 1
            /\ out.frames[1].compressed_size = BLCKSZ)
           => file.read_size = 8192 /\ file.write_size = 8200
        /\ (/\ pc = "bk_finish" /\ bk_args.backup_mode = "DELTA" /\ bk.nblocks = 2
            /\ bk.n_blocks_skipped = 1 /\ bk.blknum = 2)
           => file.read_size = 16384 /\ Len(out.frames) = 1

\* the end of a DELTA pass over two blocks that skipped the first and stored
\* the second
C29_Witness ==
    /\ pc = "bk_finish" /\ bk_args.backup_mode = "DELTA" /\ bk.nblocks = 2
    /\ bk.n_blocks_skipped = 1 /\ bk.blknum = 2
    /\ Len(out.frames) = 1 /\ out.frames[1].block = 1
    /\ file.read_size = 16384 /\ file.uncompressed_size = BLCKSZ

\* the answers of validate_one_page that prepare_page has a case for
PrepareCases ==
    {"PAGE_IS_ZEROED", "PAGE_IS_VALID", "PAGE_HEADER_IS_INVALID", "PAGE_CHECKSUM_MISMATCH"}
\* prepare_page is running or has just ended
InPrepare == pc \in {"pp_loop", "pp_tail", "pp_done"}

\* C30: the assertions of the backup path are never reached: in prepare_page
\* validate_one_page answers PAGE_IS_ZEROED, PAGE_IS_VALID,
\* PAGE_HEADER_IS_INVALID or PAGE_CHECKSUM_MISMATCH only, and in the loop of
\* backup_data_file prepare_page, called strict, never returns
\* PageIsCorrupted: the state it returns is PageIsTruncated, SkipCurrentPage
\* or PageIsOk, the three the loop has a case for.
C30_AssertionsNotReached ==
    /\ InPrepare =>
          /\ pp.ret # "assert"
          /\ pp.nreads > 0 /\ pp.rc # "NONE" => pp.rc \in PrepareCases
    /\ pc = "pp_done" /\ pp.ret = "return" /\ pp_args.strict =>
          pp.state \in {PageIsTruncated, SkipCurrentPage, PageIsOk}

\* a page whose checksum is wrong at every read ended the strict call with an
\* error, not with a state returned
C30_Witness ==
    /\ pc = "pp_done" /\ pp_args.strict /\ pp.ret = "error"
    /\ pp.rc = "PAGE_CHECKSUM_MISMATCH" /\ pp.nreads = 100

(***************************************************************************)
(* restore_data_file_internal over every value of a frame header: the      *)
(* streams hold one frame whose compressed_size is drawn from the range of *)
(* int32, alone, after a frame of block 0 or before a frame of block 1.    *)
(* The payload of the frame is what page.data holds when the page is       *)
(* written: the bytes read, or, when no byte was read, what the buffer     *)
(* held before.                                                            *)
(***************************************************************************)
MinInt32 == -2147483647 - 1
MaxInt32 == 2147483647
HeaderSizes ==
    {MinInt32, -BLCKSZ - 1, -BLCKSZ, -9, -8, -7, -2, PageIsTruncated, 0, 1, 7, 8, 104,
     BLCKSZ - 7, BLCKSZ - 1, BLCKSZ, BLCKSZ + 1, MaxInt32}
HeaderFrames(alg) ==
    UNION { { [block |-> b, compressed_size |-> c, data |-> d, pad |-> 0] :
                d \in {RawData(TornHdr), RawData(ValidPage(PrevStartLsn, 0, b)),
                       RawData(ZeroPage), ZData(ValidPage(PrevStartLsn, 0, b), alg)} } :
              b \in {0, 1, OffsetWrap}, c \in HeaderSizes }
    \cup { ShortPayload(1, c) : c \in HeaderSizes }
HeaderStreams(alg) ==
    UNION { { <<h>>,
              <<make_frame(0, ValidPage(PrevStartLsn, 0, 0), alg, 0), h>>,
              <<h, make_frame(1, ValidPage(PrevStartLsn, 0, 1), alg, 0)>> } :
              h \in HeaderFrames(alg) }

\* compress_alg of the file and the version of the backup: those of the
\* streams above, and a backup taken without compression before 2.0.23
HeaderKinds == StreamKinds \cup { <<"NONE", 20022>> }

InitHeader ==
    /\ pc = "ri_begin"
    /\ IdlePage /\ IdlePrepare /\ IdleChain
    /\ disk = <<>> /\ bk = <<>> /\ dest = <<>> /\ val = <<>>
    /\ \E k \in HeaderKinds, n \in {0, 1} :
         \E frames \in HeaderStreams(k[1]) :
           /\ out = [exists |-> TRUE, frames |-> frames]
           /\ file = [write_size |-> BackupPageHeaderSize, n_blocks |-> n,
                      compress_alg |-> k[1], segno |-> 0, crc |-> WrongCrc]
           /\ bk_args = [backup_version |-> k[2], checksum_version |-> 1,
                         stop_lsn |-> PrevStartLsn]

NextHeader ==
    \/ RestoreInternalBegin /\ UNCHANGED <<vpVars, chVars>>
    \/ RestoreInternalStep /\ UNCHANGED <<vpVars, chVars>>

SpecHeader == InitHeader /\ [][NextHeader]_vars

\* a pass of the loop that issues the fread of the payload
ReadsPayload ==
    /\ pc = "ri_loop" /\ ~interrupted /\ dest.i < Len(out.frames)
    /\ LET h == NextFrame IN
         /\ header_read(h) /\ ~(h.block = 0 /\ h.compressed_size = 0)
         /\ h.block >= dest.blknum /\ h.compressed_size # PageIsTruncated
         /\ ~(file.n_blocks > 0 /\ h.block >= file.n_blocks)
         /\ ~size_rejected(h.compressed_size)
         /\ dest'.payload_req = payload_request(h.compressed_size)

\* C31: every payload read of restore_data_file_internal asks for at most
\* BLCKSZ bytes, MAXALIGN(compressed_size) being computed without sign, so
\* the page buffer is not overrun: a header whose compressed_size is above
\* BLCKSZ, or negative and not the truncation marker, is rejected before the
\* read.
C31_PayloadReadBounded ==
    /\ [](pc \in ReaderPcs => dest.payload_req <= BlockWords)
    /\ [][ReadsPayload => 0 <= NextFrame.compressed_size /\ NextFrame.compressed_size <= BLCKSZ]_vars

\* what holds of the code: the sizes above BLCKSZ are rejected before the
\* read, and a read asks for more than BLCKSZ bytes exactly when the size is
\* -8 or less
C31_BoundedUnlessNegative ==
    [][ReadsPayload =>
         /\ NextFrame.compressed_size <= BLCKSZ
         /\ dest'.payload_req > BlockWords <=> NextFrame.compressed_size <= -MAXIMUM_ALIGNOF]_vars

\* a payload read that asked for more than the page buffer holds
C31_Witness ==
    /\ pc = "ri_done" /\ dest.ret = "error" /\ dest.payload_req > BlockWords

\* the frame holds, as it is, a page that validate_one_page takes for valid
\* or zeroed
LegalRawPage(h) ==
    /\ h.compressed_size = BLCKSZ /\ h.data.z = NULL /\ h.data.view # NULL
    /\ validate_one_page(h.data.view, file.segno * RELSEG_SIZE + h.block,
                         InvalidXLogRecPtr, bk_args.checksum_version, 0).rc
          \in {"PAGE_IS_VALID", "PAGE_IS_ZEROED"}

\* C32: page_may_be_compressed is false for every page that validate_one_page
\* classifies as valid or zeroed, whatever the version of the backup and the
\* algorithm of the file, so restore writes a frame of compressed_size BLCKSZ
\* that holds such a page as it is and does not decompress it.
C32_LegalPageNotCompressed ==
    [][ReadsPayload /\ LegalRawPage(NextFrame) =>
         /\ ~page_may_be_compressed(NextFrame.data, file.compress_alg,
                                    bk_args.backup_version)
         /\ dest'.ret # "error"
         /\ dest'.write_len = dest.write_len + BLCKSZ
         /\ dest'.dest[block_offset(NextFrame.block) + 1] = NextFrame.data.view]_vars

\* what holds of the code: the same for the pages of a sane header, and for
\* the zeroed pages of the backups of 2.0.23 or later and of the files
\* compressed with zlib
C32_SanePageNotCompressed ==
    [][/\ ReadsPayload /\ LegalRawPage(NextFrame)
       /\ \/ HeaderSane(NextFrame.data.view)
          \/ bk_args.backup_version >= 20023
          \/ file.compress_alg = "ZLIB"
       =>
         /\ ~page_may_be_compressed(NextFrame.data, file.compress_alg,
                                    bk_args.backup_version)
         /\ dest'.ret # "error"
         /\ dest'.write_len = dest.write_len + BLCKSZ
         /\ dest'.dest[block_offset(NextFrame.block) + 1] = NextFrame.data.view]_vars

\* a zeroed page stored as it is was written back
C32_Witness ==
    /\ pc = "ri_done" /\ dest.ret = "return" /\ Len(out.frames) = 1
    /\ LegalRawPage(out.frames[1]) /\ out.frames[1].data.view = ZeroPage
    /\ dest.dest = <<ZeroPage>>

(***************************************************************************)
(* restore_non_data_file.  parent_chain[1] is the backup being restored,   *)
(* the last member the oldest; a member is [file, data]: file the record   *)
(* the backup has for the file, NULL when it has none, data the content of *)
(* the file the backup stores, NULL when it stores none.  dest is [tmp,    *)
(* ret, value, out]: tmp the member tmp_file and tmp_backup stand for (0   *)
(* for NULL), out what was written to the destination.                     *)
(***************************************************************************)
NonDataRecord(w) == [write_size |-> w]
\* a backup stores the file exactly when it copied bytes of it
NonDataMembers ==
    { [file |-> NULL, data |-> NULL] }
    \cup { [file |-> NonDataRecord(w), data |-> NULL] : w \in {FILE_NOT_FOUND, BYTES_INVALID, 0} }
    \cup { [file |-> NonDataRecord(BackupPageHeaderSize), data |-> [bytes |-> c]] :
              c \in {"a", "b"} }
RECURSIVE NonDataChainsOfLen(_)
NonDataChainsOfLen(n) ==
    IF n = 0 THEN {<<>>}
    ELSE { Append(c, m) : c \in NonDataChainsOfLen(n - 1), m \in NonDataMembers }
MaxNonDataChain == 3
NonDataChains ==
    { c \in UNION { NonDataChainsOfLen(n) : n \in 1..MaxNonDataChain } : c[1].file # NULL }

\* lines 1155-1183: the loop over the parents, from member i on; tmp is the
\* member the last pass looked at
RECURSIVE find_full_copy(_, _, _)
find_full_copy(chain, i, tmp) ==
    IF i > Len(chain) THEN [ret |-> "none", tmp |-> tmp]
    ELSE IF chain[i].file = NULL THEN [ret |-> "error", tmp |-> 0]
    ELSE IF chain[i].file.write_size = 0 THEN [ret |-> "return", tmp |-> i]
    ELSE IF chain[i].file.write_size > 0 THEN [ret |-> "none", tmp |-> i]
    ELSE find_full_copy(chain, i + 1, i)

\* lines 1140-1191: tmp_file and tmp_backup, and the two tests that follow the
\* loop
locate_full_copy(chain, dfile) ==
    IF dfile.write_size > 0 THEN [ret |-> "none", tmp |-> 1]
    ELSE LET r == find_full_copy(chain, 2, 0) IN
         IF r.ret = "none" /\ r.tmp = 0 THEN [ret |-> "error", tmp |-> 0] ELSE r

InitNonData ==
    /\ pc = "nd_begin"
    /\ IdlePage /\ IdlePrepare
    /\ file = <<>> /\ bk_args = <<>> /\ disk = <<>> /\ bk = <<>> /\ out = <<>> /\ val = <<>>
    /\ dest = <<>>
    /\ parent_chain \in NonDataChains
    /\ dest_file = parent_chain[1].file

\* lines 1140-1191
NonDataLocate ==
    /\ pc = "nd_begin"
    /\ LET r == locate_full_copy(parent_chain, dest_file) IN
         /\ dest' = [tmp |-> r.tmp, out |-> NULL,
                     ret |-> r.ret, value |-> IF r.ret = "return" THEN 0 ELSE -1]
         /\ pc' = IF r.ret = "none" THEN "nd_copy" ELSE "nd_done"
    /\ UNCHANGED <<file, bk_args, disk, bk, out, val, parent_chain, dest_file>>

\* lines 1206-1220 and restore_non_data_file_internal, lines 1091-1126: the
\* file of the member opened, copied and closed
NonDataCopy ==
    /\ pc = "nd_copy"
    /\ LET m == parent_chain[dest.tmp] IN
         IF m.data = NULL \/ interrupted
         THEN dest' = [dest EXCEPT !.ret = "error"]
         ELSE dest' = [dest EXCEPT !.ret = "return", !.out = m.data,
                                   !.value = m.file.write_size]
    /\ pc' = "nd_done"
    /\ UNCHANGED <<file, bk_args, disk, bk, out, val, parent_chain, dest_file>>

NextNonData ==
    \/ NonDataLocate /\ UNCHANGED <<vpVars, ppVars>>
    \/ NonDataCopy /\ UNCHANGED <<vpVars, ppVars>>

SpecNonData == InitNonData /\ [][NextNonData]_vars

\* the members whose record has a write_size of 0 or more
FullCopies ==
    { k \in 1..Len(parent_chain) :
        parent_chain[k].file # NULL /\ parent_chain[k].file.write_size >= 0 }
\* the newest of them
FirstFullCopy == CHOOSE k \in FullCopies : \A j \in FullCopies : k <= j
\* every member older than k has a record of the file
RecordsUpTo(k) == \A j \in 1..k : parent_chain[j].file # NULL

\* C33: restore_non_data_file uses the first record with write_size >= 0,
\* going from the backup being restored to the older ones: it copies nothing
\* and returns 0 when that write_size is 0 and copies the file of that backup
\* otherwise; it never copies from a record whose write_size is BYTES_INVALID
\* or FILE_NOT_FOUND, and it ends with an error when the chain has no record
\* with write_size >= 0.
C33_CopiesLatestFullCopy ==
    pc = "nd_done" =>
        /\ (FullCopies # {} /\ RecordsUpTo(FirstFullCopy)) =>
              IF parent_chain[FirstFullCopy].file.write_size = 0
              THEN dest.ret = "return" /\ dest.value = 0 /\ dest.out = NULL
              ELSE /\ dest.ret = "return"
                   /\ dest.out = parent_chain[FirstFullCopy].data
                   /\ dest.value = parent_chain[FirstFullCopy].file.write_size
        /\ dest.out # NULL => parent_chain[dest.tmp].file.write_size >= 0
        /\ FullCopies = {} => dest.ret = "error" /\ dest.out = NULL

\* what holds of the code: the same, for a backup being restored whose own
\* record has no write_size of 0
C33_UnlessDestEmpty ==
    (pc = "nd_done" /\ dest_file.write_size # 0) =>
        /\ (FullCopies # {} /\ RecordsUpTo(FirstFullCopy)) =>
              IF parent_chain[FirstFullCopy].file.write_size = 0
              THEN dest.ret = "return" /\ dest.value = 0 /\ dest.out = NULL
              ELSE /\ dest.ret = "return"
                   /\ dest.out = parent_chain[FirstFullCopy].data
                   /\ dest.value = parent_chain[FirstFullCopy].file.write_size
        /\ dest.out # NULL => parent_chain[dest.tmp].file.write_size >= 0
        /\ FullCopies = {} => dest.ret = "error" /\ dest.out = NULL

\* the file was copied from the grandparent, past a parent that did not
\* change it
C33_Witness ==
    /\ pc = "nd_done" /\ dest.ret = "return" /\ Len(parent_chain) = 3
    /\ dest_file.write_size = BYTES_INVALID
    /\ parent_chain[2].file # NULL /\ parent_chain[2].file.write_size = BYTES_INVALID
    /\ dest.tmp = 3 /\ dest.out = parent_chain[3].data /\ dest.out # NULL

====
